---- MODULE Spec2Model ----
(***************************************************************************)
(* A model of the Authority Realization Engine (pngen/are): the compiler   *)
(* pipeline Normalize -> Validate -> ResolveConflicts -> EmitProof, the    *)
(* validator, and the runtime reader IsAuthorized.                         *)
(*                                                                         *)
(* Representation.  Claim ids, source ids and version strings are atomic   *)
(* names; the order Go's < gives them is IdOrder.  Subject, action and     *)
(* resource are sequences of one-character strings, so that the conflict   *)
(* key "%s:%s:%s" and the wildcard matcher work on characters as the code  *)
(* does.  A time is a natural number, NoTime (0) is a nil *time.Time.      *)
(***************************************************************************)
EXTENDS Integers, Sequences, FiniteSets, TLC

VARIABLES
    sources,    \* compiler -> (source id -> registered AuthoritySource)
    pc,         \* where the driver ProcessWithContext stands
    compiler,   \* the compiler instance the current call runs on
    src,        \* the AuthoritySource the current call was given
    cancelled,  \* ctx.Err() != nil for the current call's context
    art,        \* the driver's local variable artifact
    result,     \* what the current call returned
    log,        \* the stages the current call ran, each with its error
    calls,      \* the number of calls started so far (mints ids and times)
    history,    \* the finished calls: source, compiler, result
    rt,         \* the artifact a RuntimeInterface holds
    answer,     \* the last IsAuthorized query and its result
    goroutines, \* goroutine -> the call it runs on the shared compiler
    mu,         \* c.mu: the goroutine holding the write lock, the readers
    logger      \* c.logger

vars == <<sources, pc, compiler, src, cancelled, art, result, log, calls,
          history, rt, answer, goroutines, mu, logger>>

(***************************************************************************)
(* Bounds of the model.                                                    *)
(***************************************************************************)
MaxClaims == 3      \* claim records in one source
MaxTime == 2        \* time instants 1..MaxTime
MaxCalls == 3       \* calls of Process in one behaviour of SpecRepeat

(***************************************************************************)
(* Strings and their order.                                                *)
(***************************************************************************)
\* nil *time.Time
NoTime == 0
\* a conditions key that is absent (or not a string)
NoRef == "-"

\* atomic names in the order Go's string < gives them
IdOrder == <<"", "a", "b", "c", "d", "e", "s", "t", "z">>
IdRank(x) == CHOOSE i \in 1..Len(IdOrder) : IdOrder[i] = x
IdLess(x, y) == IdRank(x) < IdRank(y)

\* characters in ASCII order
CharOrder == <<"*", "/", ":", "c", "r", "u", "w", "x">>
CharRank(ch) == CHOOSE i \in 1..Len(CharOrder) : CharOrder[i] = ch

\* Go's < on strings, for strings held as sequences of characters
RECURSIVE StrLess(_, _)
StrLess(x, y) ==
    IF y = <<>> THEN FALSE
    ELSE IF x = <<>> THEN TRUE
    ELSE IF Head(x) # Head(y) THEN CharRank(Head(x)) < CharRank(Head(y))
    ELSE StrLess(Tail(x), Tail(y))

\* strings.HasPrefix
HasPrefix(s, prefix) ==
    /\ Len(prefix) <= Len(s)
    /\ SubSeq(s, 1, Len(prefix)) = prefix

\* strings.HasSuffix
HasSuffix(s, suffix) ==
    /\ Len(suffix) <= Len(s)
    /\ SubSeq(s, Len(s) - Len(suffix) + 1, Len(s)) = suffix

\* strings.TrimSuffix
TrimSuffix(s, suffix) ==
    IF HasSuffix(s, suffix) THEN SubSeq(s, 1, Len(s) - Len(suffix)) ELSE s

\* strings.Contains(s, "*")
ContainsStar(s) == \E i \in 1..Len(s) : s[i] = "*"

\* the elements of a sequence
Range(s) == {s[i] : i \in 1..Len(s)}

\* sort.Slice(s, less) with less[i, j] the less function on the positions
\* of s as it is passed in.  On a slice of at most 12 elements sort.Slice
\* is an insertion sort: the result is sorted by less and elements that
\* compare equal keep their order
SortSlice(s, less) ==
    LET n == Len(s)
        before(i) == {j \in 1..n :
                        \/ less[j, i]
                        \/ (~less[i, j] /\ j < i)}
    IN  [k \in 1..n |-> s[CHOOSE i \in 1..n : Cardinality(before(i)) = k - 1]]

(***************************************************************************)
(* core/air.go: the data model.                                            *)
(***************************************************************************)
Permission == "permission"
Prohibition == "prohibition"
Obligation == "obligation"
Delegation == "delegation"

Delegates == "delegates"
Revokes == "revokes"
Supersedes == "supersedes"

\* Go's < on the three EdgeType strings
EdgeTypeRank(t) ==
    CASE t = "" -> 0
      [] t = Delegates -> 1
      [] t = Revokes -> 2
      [] t = Supersedes -> 3

IsValidClaimType(t) == t \in {Permission, Prohibition, Obligation, Delegation}

\* AuthorityTypeOrder()[t]; a type that is no key of the map reads as 0
AuthorityTypeOrder(t) ==
    CASE t = "sovereign" -> 0
      [] t = "legal" -> 1
      [] t = "regulatory" -> 2
      [] t = "organizational" -> 3
      [] t = "contractual" -> 4
      [] OTHER -> 0

\* the zero AuthoritySource, read from the table for an id it does not hold
ZeroSource == [id |-> "", type |-> "", version |-> "", claims |-> <<>>]

\* the zero Claim
ZeroClaim ==
    [id |-> "", type |-> "", subject |-> <<>>, action |-> <<>>,
     resource |-> <<>>,
     scope |-> [jurisdictions |-> <<>>, operations |-> <<>>,
                time_start |-> NoTime, time_end |-> NoTime],
     conditions |-> [delegates_to |-> NoRef, revokes |-> NoRef,
                     supersedes |-> NoRef],
     source_id |-> ""]

\* AuthorityGraph{}: Nodes is a nil map
NilGraph == [nodes_nil |-> TRUE, nodes |-> <<>>, edges |-> <<>>]

\* AuthorityArtifact{}
ZeroArtifact ==
    [id |-> "", source_id |-> "", claims |-> <<>>, graph |-> NilGraph,
     generated_at |-> 0]

\* graph.Nodes[id]: the zero Claim for a missing key
NodeAt(graph, id) ==
    IF id \in DOMAIN graph.nodes THEN graph.nodes[id] ELSE ZeroClaim

(***************************************************************************)
(* Errors: the kind, and the claim or node the message names.              *)
(***************************************************************************)
NoErr == [kind |-> "nil", about |-> ""]
Err(kind, about) == [kind |-> kind, about |-> about]

(***************************************************************************)
(* The normalizer.  A raw claim record is the decoded entry of             *)
(* source.Metadata["claims"]: rec says whether the entry is a key-value    *)
(* record at all, a field that is missing or not a string is "" (<<>> for  *)
(* subject, action, resource), a time that is no RFC 3339 string is        *)
(* BadTime, jurisdictions and operations hold the string entries only.     *)
(***************************************************************************)
\* a time_start / time_end value that time.Parse rejects
BadTime == -1

\* parseTime
parseTime(t) == IF t >= 1 THEN t ELSE NoTime

\* the error parseClaim returns for a record, NoErr if it parses
parseClaimErr(claimDict) ==
    IF claimDict.id = "" THEN Err("ValidationError", "id")
    ELSE IF claimDict.type = "" THEN Err("ValidationError", "type")
    ELSE IF ~IsValidClaimType(claimDict.type) THEN Err("ValidationError", "type")
    ELSE IF claimDict.subject = <<>> THEN Err("ValidationError", "subject")
    ELSE IF claimDict.action = <<>> THEN Err("ValidationError", "action")
    ELSE IF claimDict.resource = <<>> THEN Err("ValidationError", "resource")
    ELSE NoErr

\* the Claim parseClaim returns for a record that parses
parseClaim(claimDict, sourceID) ==
    [id |-> claimDict.id,
     type |-> claimDict.type,
     subject |-> claimDict.subject,
     action |-> claimDict.action,
     resource |-> claimDict.resource,
     scope |-> [jurisdictions |-> claimDict.scope.jurisdictions,
                operations |-> claimDict.scope.operations,
                time_start |-> parseTime(claimDict.scope.time_start),
                time_end |-> parseTime(claimDict.scope.time_end)],
     conditions |-> claimDict.conditions,
     source_id |-> sourceID]

\* the edges one claim contributes, in the order the second pass appends them
ClaimEdges(claim, nodeIDs) ==
    (IF claim.conditions.delegates_to \in nodeIDs
     THEN <<[from_id |-> claim.id, to_id |-> claim.conditions.delegates_to,
             edge_type |-> Delegates]>>
     ELSE <<>>)
    \o
    (IF claim.conditions.revokes \in nodeIDs
     THEN <<[from_id |-> claim.id, to_id |-> claim.conditions.revokes,
             edge_type |-> Revokes]>>
     ELSE <<>>)
    \o
    (IF claim.conditions.supersedes \in nodeIDs
     THEN <<[from_id |-> claim.id, to_id |-> claim.conditions.supersedes,
             edge_type |-> Supersedes]>>
     ELSE <<>>)

RECURSIVE AllEdges(_, _)
AllEdges(claims, nodeIDs) ==
    IF claims = <<>> THEN <<>>
    ELSE ClaimEdges(Head(claims), nodeIDs) \o AllEdges(Tail(claims), nodeIDs)

\* a less function that compares the target before the origin
EdgeLess_TargetFirst(e, f) ==
    IF e.to_id # f.to_id THEN IdLess(e.to_id, f.to_id)
    ELSE IF e.from_id # f.from_id THEN IdLess(e.from_id, f.from_id)
    ELSE EdgeTypeRank(e.edge_type) < EdgeTypeRank(f.edge_type)

\* the less function buildGraph sorts the edges with
EdgeLess(e, f) ==
    IF e.from_id # f.from_id THEN IdLess(e.from_id, f.from_id)
    ELSE IF e.to_id # f.to_id THEN IdLess(e.to_id, f.to_id)
    ELSE EdgeTypeRank(e.edge_type) < EdgeTypeRank(f.edge_type)

\* buildGraph: nodes[claim.ID] = claim in claim order (the last claim of an
\* id stays), then the edges whose target is a node, sorted
buildGraph(claims) ==
    LET nodeIDs == {claims[i].id : i \in 1..Len(claims)}
        last(id) == CHOOSE i \in 1..Len(claims) :
                        /\ claims[i].id = id
                        /\ \A j \in (i + 1)..Len(claims) : claims[j].id # id
        edges == AllEdges(claims, nodeIDs)
    IN  [nodes_nil |-> FALSE,
         nodes |-> [id \in nodeIDs |-> claims[last(id)]],
         edges |-> SortSlice(edges, [i, j \in 1..Len(edges) |->
                                        EdgeLess(edges[i], edges[j])])]

\* the entries of the claims payload that are key-value records
ClaimRecords(source) == SelectSeq(source.claims, LAMBDA d : d.rec)

\* the error Normalize returns, NoErr if it returns an artifact
NormalizeErr(ctxErr, source) ==
    LET recs == ClaimRecords(source)
        bad == SelectSeq(recs, LAMBDA d : parseClaimErr(d) # NoErr)
    IN  IF ctxErr THEN Err("Cancelled", "")
        ELSE IF source.id = "" THEN Err("EmptySourceID", "")
        ELSE IF Len(bad) > 0
             THEN Err("CompilationError", parseClaimErr(bad[1]).about)
        ELSE NoErr

\* a Normalize that stores the source before it checks anything
NormalizeRegisters_BeforeChecks(ctxErr, source) == TRUE

\* whether Normalize gets as far as storing the source in c.sources
NormalizeRegisters(ctxErr, source) == ~ctxErr /\ source.id # ""

\* the artifact Normalize returns: uuid and now are the fresh id and time
Normalize(source, uuid, now) ==
    LET recs == ClaimRecords(source)
        claims == [i \in 1..Len(recs) |-> parseClaim(recs[i], source.id)]
    IN  [id |-> uuid,
         source_id |-> source.id,
         claims |-> claims,
         graph |-> buildGraph(claims),
         generated_at |-> now]

(***************************************************************************)
(* The validator.                                                          *)
(***************************************************************************)
\* isScopeContained that holds an inner scope without a bound to the bound
\* of the outer scope
isScopeContained_AbsentIsUnbounded(inner, outer) ==
    /\ Range(inner.jurisdictions) \subseteq Range(outer.jurisdictions)
    /\ Range(inner.operations) \subseteq Range(outer.operations)
    /\ ~(/\ outer.time_start # NoTime
         /\ (inner.time_start = NoTime \/ inner.time_start < outer.time_start))
    /\ ~(/\ outer.time_end # NoTime
         /\ (inner.time_end = NoTime \/ inner.time_end > outer.time_end))

isScopeContained(inner, outer) ==
    /\ Range(inner.jurisdictions) \subseteq Range(outer.jurisdictions)
    /\ Range(inner.operations) \subseteq Range(outer.operations)
    /\ ~(/\ outer.time_start # NoTime
         /\ inner.time_start # NoTime
         /\ inner.time_start < outer.time_start)
    /\ ~(/\ outer.time_end # NoTime
         /\ inner.time_end # NoTime
         /\ inner.time_end > outer.time_end)

\* the indices of the Delegates edges into a claim, in edge order
DelegatesInto(graph, id) ==
    {i \in 1..Len(graph.edges) :
        /\ graph.edges[i].to_id = id
        /\ graph.edges[i].edge_type = Delegates}

\* the delegator validateDelegationClaim finds: the from-node of the FIRST
\* Delegates edge into the claim, the zero Claim when there is none
FirstDelegator(claim, graph) ==
    LET into == DelegatesInto(graph, claim.id)
    IN  IF into = {} THEN ZeroClaim
        ELSE NodeAt(graph,
                    graph.edges[CHOOSE i \in into : \A j \in into : i <= j].from_id)

validateDelegationClaim(claim, graph) ==
    LET delegatorClaim == FirstDelegator(claim, graph)
    IN  delegatorClaim.id # "" => isScopeContained(claim.scope, delegatorClaim.scope)

validateClaim(claim, graph) ==
    /\ claim.id # ""
    /\ claim.subject # <<>>
    /\ claim.action # <<>>
    /\ claim.resource # <<>>
    /\ claim.source_id # ""
    /\ (claim.type = Delegation => validateDelegationClaim(claim, graph))

\* hasCycles' visit(nodeID) from its i-th edge on: nodeID is already in
\* visited and in recStack.  Returns whether a cycle was met and the visited
\* set; recStack is back to the caller's when a visit returns false.
RECURSIVE visit(_, _, _, _, _)
visit(edges, nodeID, i, visited, recStack) ==
    IF i > Len(edges) THEN [cycle |-> FALSE, visited |-> visited]
    ELSE IF edges[i].from_id # nodeID
         THEN visit(edges, nodeID, i + 1, visited, recStack)
    ELSE LET neighbor == edges[i].to_id IN
         IF neighbor \notin visited
         THEN LET r == visit(edges, neighbor, 1, visited \cup {neighbor},
                             recStack \cup {neighbor})
              IN  IF r.cycle THEN r
                  ELSE visit(edges, nodeID, i + 1, r.visited, recStack)
         ELSE IF neighbor \in recStack
              THEN [cycle |-> TRUE, visited |-> visited]
         ELSE visit(edges, nodeID, i + 1, visited, recStack)

\* hasCycles' loop over the sorted node ids, from the k-th id on
RECURSIVE visitAll(_, _, _, _)
visitAll(edges, nodeIDs, k, visited) ==
    IF k > Len(nodeIDs) THEN FALSE
    ELSE IF nodeIDs[k] \in visited THEN visitAll(edges, nodeIDs, k + 1, visited)
    ELSE LET r == visit(edges, nodeIDs[k], 1, visited \cup {nodeIDs[k]},
                        {nodeIDs[k]})
         IN  r.cycle \/ visitAll(edges, nodeIDs, k + 1, r.visited)

\* sort.Strings over a set of ids
RECURSIVE SortedIDs(_)
SortedIDs(ids) ==
    IF ids = {} THEN <<>>
    ELSE LET m == CHOOSE x \in ids : \A y \in ids : ~IdLess(y, x)
         IN  <<m>> \o SortedIDs(ids \ {m})

\* hasCycles that walks the Delegates edges only
hasCycles_DelegatesOnly(graph) ==
    visitAll(SelectSeq(graph.edges, LAMBDA e : e.edge_type = Delegates),
             SortedIDs(DOMAIN graph.nodes), 1, {})

\* hasCycles that starts its walk at the first node only
hasCycles_FromFirstNode(graph) ==
    LET nodeIDs == SortedIDs(DOMAIN graph.nodes)
    IN  visitAll(graph.edges,
                 IF nodeIDs = <<>> THEN nodeIDs ELSE <<nodeIDs[1]>>, 1, {})

hasCycles(graph) ==
    visitAll(graph.edges, SortedIDs(DOMAIN graph.nodes), 1, {})

\* the first error the loop over the edges returns, from the i-th edge on
RECURSIVE EdgeErr(_, _)
EdgeErr(graph, i) ==
    IF i > Len(graph.edges) THEN NoErr
    ELSE LET edge == graph.edges[i] IN
         IF edge.from_id \notin DOMAIN graph.nodes
         THEN Err("InvalidEdgeReference", edge.from_id)
         ELSE IF edge.to_id \notin DOMAIN graph.nodes
         THEN Err("InvalidEdgeReference", edge.to_id)
         ELSE IF edge.edge_type = ""
         THEN Err("MissingEdgeType", "")
         ELSE EdgeErr(graph, i + 1)

validateGraphWithErrors(graph) ==
    IF graph.nodes_nil THEN Err("NilGraph", "")
    ELSE IF EdgeErr(graph, 1) # NoErr THEN EdgeErr(graph, 1)
    ELSE IF hasCycles(graph) THEN Err("CyclicGraph", "")
    ELSE NoErr

\* the error validateClaimWithErrors returns: it names the claim only
validateClaimWithErrors(claim, graph) ==
    IF ~validateClaim(claim, graph) THEN Err("ClaimFailedValidation", claim.id)
    ELSE NoErr

\* ValidateAirWithErrors with its first two checks in the other order: the
\* empty artifact is accepted before the nodes table is looked at
ValidateAirWithErrors_EmptyFirst(artifact) ==
    IF Len(artifact.claims) = 0 /\ DOMAIN artifact.graph.nodes = {} THEN NoErr
    ELSE IF artifact.graph.nodes_nil THEN Err("NilGraph", "")
    ELSE NoErr

ValidateAirWithErrors(artifact) ==
    LET failing == {i \in 1..Len(artifact.claims) :
                      validateClaimWithErrors(artifact.claims[i],
                                              artifact.graph) # NoErr}
    IN  IF artifact.graph.nodes_nil THEN Err("NilGraph", "")
        ELSE IF Len(artifact.claims) = 0
                /\ DOMAIN artifact.graph.nodes = {} THEN NoErr
        ELSE IF failing # {}
             THEN validateClaimWithErrors(
                      artifact.claims[CHOOSE i \in failing :
                                          \A j \in failing : i <= j],
                      artifact.graph)
        ELSE validateGraphWithErrors(artifact.graph)

\* AuthorityCompiler.Validate
Validate(artifact) == ValidateAirWithErrors(artifact)

(***************************************************************************)
(* The conflict resolver.                                                  *)
(***************************************************************************)
\* the depth getDelegationDepth reports when its walk meets a node again
CycleDepth == 999

\* parseVersion on the version strings of the model: what semverRegex and
\* strconv.Atoi give for each; a string the regex rejects is (0,0,0)
parseVersion(versionStr) ==
    CASE versionStr = "" -> <<0, 0, 0>>
      [] versionStr = "1.0" -> <<1, 0, 0>>
      [] versionStr = "v2" -> <<2, 0, 0>>
      [] versionStr = "2.1.0" -> <<2, 1, 0>>
      [] OTHER -> <<0, 0, 0>>

\* getDelegationDepth's loop: follow the first Delegates edge into currentID
RECURSIVE depthWalk(_, _, _, _)
depthWalk(graph, currentID, depth, visited) ==
    IF currentID = "" THEN depth
    ELSE IF currentID \in visited THEN CycleDepth
    ELSE LET into == DelegatesInto(graph, currentID) IN
         IF into = {} THEN depth
         ELSE LET parent ==
                      graph.edges[CHOOSE i \in into : \A j \in into : i <= j].from_id
              IN  IF parent = "" THEN depth + 1
                  ELSE depthWalk(graph, parent, depth + 1,
                                 visited \cup {currentID})

getDelegationDepth(claim, graph) == depthWalk(graph, claim.id, 0, {})

getScopeSpecificity(scope) ==
    Len(scope.jurisdictions) + Len(scope.operations)
    - (IF scope.time_start # NoTime THEN 10 ELSE 0)
    - (IF scope.time_end # NoTime THEN 10 ELSE 0)

\* precedenceKey: a []interface{} of an int, a []int, an int and an int
precedenceKey(source, claim, graph) ==
    <<[dyn |-> "int", val |-> AuthorityTypeOrder(source.type)],
      [dyn |-> "[]int", val |-> parseVersion(source.version)],
      [dyn |-> "int", val |-> getDelegationDepth(claim, graph)],
      [dyn |-> "int", val |-> 0 - getScopeSpecificity(claim.scope)]>>

\* comparePrecedenceKeys at one position: the type switch has a case for int
\* and one for string; an element of any other dynamic type is passed over
CompareAt(av, bv) ==
    IF av.dyn = "int"
    THEN IF bv.dyn # "int" THEN 0 - 1
         ELSE IF av.val < bv.val THEN 0 - 1
         ELSE IF av.val > bv.val THEN 1
         ELSE 0
    ELSE 0

RECURSIVE compareFrom(_, _, _)
compareFrom(a, b, i) ==
    IF i > Len(a) THEN (IF Len(a) < Len(b) THEN 0 - 1 ELSE 0)
    ELSE IF i > Len(b) THEN 1
    ELSE IF CompareAt(a[i], b[i]) # 0 THEN CompareAt(a[i], b[i])
    ELSE compareFrom(a, b, i + 1)

comparePrecedenceKeys(a, b) == compareFrom(a, b, 1)

\* c.sources[id] of the copied table
SourceAt(table, id) == IF id \in DOMAIN table THEN table[id] ELSE ZeroSource

\* applyPrecedence that looks a claim's source up by the id of the claim
applyPrecedence_SourceByClaimID(claims, artifact, sourcesCopy) ==
    LET less(claimA, claimB) ==
            comparePrecedenceKeys(
                precedenceKey(SourceAt(sourcesCopy, claimA.id), claimA,
                              artifact.graph),
                precedenceKey(SourceAt(sourcesCopy, claimB.id), claimB,
                              artifact.graph)) < 0
    IN  IF Len(claims) = 0 THEN [is_nil |-> TRUE, claim |-> ZeroClaim]
        ELSE [is_nil |-> FALSE,
              claim |-> SortSlice(claims,
                                  [i, j \in 1..Len(claims) |->
                                      less(claims[i], claims[j])])[1]]

\* applyPrecedence that returns no winner when two claims of the group have
\* keys that compare equal
applyPrecedence_NilOnTie(claims, artifact, sourcesCopy) ==
    LET key(claim) ==
            precedenceKey(SourceAt(sourcesCopy, claim.source_id), claim,
                          artifact.graph)
        less(claimA, claimB) ==
            comparePrecedenceKeys(key(claimA), key(claimB)) < 0
        tied == \E i, j \in 1..Len(claims) :
                    /\ i # j
                    /\ comparePrecedenceKeys(key(claims[i]), key(claims[j])) = 0
    IN  IF Len(claims) = 0 \/ tied THEN [is_nil |-> TRUE, claim |-> ZeroClaim]
        ELSE [is_nil |-> FALSE,
              claim |-> SortSlice(claims,
                                  [i, j \in 1..Len(claims) |->
                                      less(claims[i], claims[j])])[1]]

\* applyPrecedence: the group sorted by precedence key, its first element;
\* is_nil for an empty group
applyPrecedence(claims, artifact, sourcesCopy) ==
    LET less(claimA, claimB) ==
            comparePrecedenceKeys(
                precedenceKey(SourceAt(sourcesCopy, claimA.source_id), claimA,
                              artifact.graph),
                precedenceKey(SourceAt(sourcesCopy, claimB.source_id), claimB,
                              artifact.graph)) < 0
    IN  IF Len(claims) = 0 THEN [is_nil |-> TRUE, claim |-> ZeroClaim]
        ELSE [is_nil |-> FALSE,
              claim |-> SortSlice(claims,
                                  [i, j \in 1..Len(claims) |->
                                      less(claims[i], claims[j])])[1]]

\* the ids a graph's edges of one type point to
TargetsOf(graph, edgeType) ==
    {graph.edges[i].to_id : i \in {j \in 1..Len(graph.edges) :
                                     graph.edges[j].edge_type = edgeType}}

\* artifact.Claims without the claims whose id is in ids
WithoutIDs(artifact, ids) ==
    [artifact EXCEPT !.claims = SelectSeq(artifact.claims,
                                          LAMBDA cl : cl.id \notin ids)]

applyRevocations(artifact) ==
    WithoutIDs(artifact, TargetsOf(artifact.graph, Revokes))

\* applySupersessions that reads the edges left among the claims it is
\* given, not the edges of the graph the artifact came with
applySupersessions_FromRemainingClaims(artifact) ==
    WithoutIDs(artifact, TargetsOf(buildGraph(artifact.claims), Supersedes))

applySupersessions(artifact) ==
    WithoutIDs(artifact, TargetsOf(artifact.graph, Supersedes))

\* the key findConflicts groups by: fmt.Sprintf("%s:%s:%s", ...)
ConflictKey(claim) ==
    claim.subject \o <<":">> \o claim.action \o <<":">> \o claim.resource

\* sort.Strings over a set of keys
RECURSIVE SortedKeys(_)
SortedKeys(keys) ==
    IF keys = {} THEN <<>>
    ELSE LET m == CHOOSE x \in keys : \A y \in keys : ~StrLess(y, x)
         IN  <<m>> \o SortedKeys(keys \ {m})

\* findConflicts: the groups of two or more Permission / Prohibition claims
\* of one key, in key order, each in claim order
findConflicts(claims) ==
    LET grouping == SelectSeq(claims, LAMBDA cl :
                        cl.type # Delegation /\ cl.type # Obligation)
        group(key) == SelectSeq(grouping, LAMBDA cl : ConflictKey(cl) = key)
        keys == SortedKeys({ConflictKey(grouping[i]) : i \in 1..Len(grouping)})
        conflicting == SelectSeq(keys, LAMBDA key : Len(group(key)) > 1)
    IN  [i \in 1..Len(conflicting) |-> group(conflicting[i])]

\* ResolveConflicts' loop over the conflict groups, from group i on
RECURSIVE resolveGroups(_, _, _, _)
resolveGroups(conflicts, i, artifact, sourcesCopy) ==
    IF i > Len(conflicts) THEN [err |-> NoErr, artifact |-> artifact]
    ELSE LET conflictGroup == conflicts[i]
             winner == applyPrecedence(conflictGroup, artifact, sourcesCopy)
             losingClaimIDs == {conflictGroup[k].id : k \in 1..Len(conflictGroup)}
                               \ {winner.claim.id}
         IN  IF winner.is_nil
             THEN [err |-> Err("ConflictError", ""), artifact |-> ZeroArtifact]
             ELSE resolveGroups(conflicts, i + 1,
                                WithoutIDs(artifact, losingClaimIDs),
                                sourcesCopy)

\* ResolveConflicts: the error and the artifact it returns
ResolveConflicts(ctxErr, artifact, sourcesCopy) ==
    IF ctxErr THEN [err |-> Err("Cancelled", ""), artifact |-> ZeroArtifact]
    ELSE LET pruned == applySupersessions(applyRevocations(artifact))
             r == resolveGroups(findConflicts(pruned.claims), 1, pruned,
                                sourcesCopy)
         IN  IF r.err # NoErr THEN r
             ELSE [err |-> NoErr,
                   artifact |-> [r.artifact EXCEPT
                                    !.graph = buildGraph(r.artifact.claims)]]

(***************************************************************************)
(* The proof emitter and the driver's results.                             *)
(***************************************************************************)
\* getClaimIDs: the ids of the claims, sorted
getClaimIDs(claims) ==
    LET ids == [i \in 1..Len(claims) |-> claims[i].id]
    IN  SortSlice(ids, [i, j \in 1..Len(ids) |-> IdLess(ids[i], ids[j])])

\* EmitProof that writes the artifact's id where the source id belongs
EmitProof_ArtifactIDAsSource(artifact) ==
    LET sortedClaims ==
            SortSlice(artifact.claims,
                      [i, j \in 1..Len(artifact.claims) |->
                          IdLess(artifact.claims[i].id, artifact.claims[j].id)])
    IN  [artifact_id |-> artifact.id,
         claims |-> [i \in 1..Len(sortedClaims) |->
                        [action |-> sortedClaims[i].action,
                         id |-> sortedClaims[i].id,
                         resource |-> sortedClaims[i].resource,
                         source_id |-> sortedClaims[i].source_id,
                         subject |-> sortedClaims[i].subject,
                         type |-> sortedClaims[i].type]],
         claims_count |-> Len(artifact.claims),
         generated_at |-> artifact.generated_at,
         graph |-> [edges |-> Len(artifact.graph.edges),
                    nodes |-> Cardinality(DOMAIN artifact.graph.nodes)],
         source_id |-> artifact.id]

\* EmitProof: the document's fields (the JSON text is a function of them)
EmitProof(artifact) ==
    LET sortedClaims ==
            SortSlice(artifact.claims,
                      [i, j \in 1..Len(artifact.claims) |->
                          IdLess(artifact.claims[i].id, artifact.claims[j].id)])
    IN  [artifact_id |-> artifact.id,
         claims |-> [i \in 1..Len(sortedClaims) |->
                        [action |-> sortedClaims[i].action,
                         id |-> sortedClaims[i].id,
                         resource |-> sortedClaims[i].resource,
                         source_id |-> sortedClaims[i].source_id,
                         subject |-> sortedClaims[i].subject,
                         type |-> sortedClaims[i].type]],
         claims_count |-> Len(artifact.claims),
         generated_at |-> artifact.generated_at,
         graph |-> [edges |-> Len(artifact.graph.edges),
                    nodes |-> Cardinality(DOMAIN artifact.graph.nodes)],
         source_id |-> artifact.source_id]

\* the CompilationFailure the driver returns when Normalize fails
NormalizationFailure(err) ==
    [kind |-> "CompilationFailure",
     failure_stage |-> "normalization",
     violated_invariant |-> err,
     involved_claim_ids |-> <<>>,
     fail_closed |-> TRUE]

\* ValidationFailure with the stage name of the block above it
ValidationFailure_WrongStage(err, artifact) ==
    [kind |-> "CompilationFailure",
     failure_stage |-> "normalization",
     violated_invariant |-> err,
     involved_claim_ids |-> getClaimIDs(artifact.claims),
     fail_closed |-> TRUE]

\* the CompilationFailure the driver returns when Validate fails
ValidationFailure(err, artifact) ==
    [kind |-> "CompilationFailure",
     failure_stage |-> "validation",
     violated_invariant |-> err,
     involved_claim_ids |-> getClaimIDs(artifact.claims),
     fail_closed |-> TRUE]

\* the CompilationFailure the driver returns when ResolveConflicts fails;
\* artifact is what ResolveConflicts returned beside the error
ResolutionFailure(err, artifact) ==
    [kind |-> "CompilationFailure",
     failure_stage |-> "resolution",
     violated_invariant |-> err,
     involved_claim_ids |-> getClaimIDs(artifact.claims),
     fail_closed |-> TRUE]

CompilationSuccess(artifact, proof) ==
    [kind |-> "CompilationSuccess", artifact |-> artifact, proof |-> proof]

\* no result yet
NoResult == [kind |-> "none"]

(***************************************************************************)
(* core/runtime_interface.go: the runtime reader.                          *)
(***************************************************************************)
\* matches that lets a "/*" pattern match its bare prefix
matches_BarePrefix(pattern, value) ==
    \/ pattern = <<"*">>
    \/ pattern = value
    \/ /\ ContainsStar(pattern)
       /\ IF HasSuffix(pattern, <<"/", "*">>)
          THEN HasPrefix(value, TrimSuffix(pattern, <<"/", "*">>))
          ELSE /\ HasSuffix(pattern, <<"*">>)
               /\ HasPrefix(value, TrimSuffix(pattern, <<"*">>))

matches(pattern, value) ==
    \/ pattern = <<"*">>
    \/ pattern = value
    \/ /\ ContainsStar(pattern)
       /\ IF HasSuffix(pattern, <<"/", "*">>)
          THEN HasPrefix(value, TrimSuffix(pattern, <<"/", "*">>) \o <<"/">>)
          ELSE /\ HasSuffix(pattern, <<"*">>)
               /\ HasPrefix(value, TrimSuffix(pattern, <<"*">>))

\* the claims IsAuthorized collects, in claim order
Applicable(artifact, subject, action, resource) ==
    SelectSeq(artifact.claims, LAMBDA cl :
        /\ matches(cl.subject, subject)
        /\ matches(cl.action, action)
        /\ matches(cl.resource, resource))

\* time.Format(time.RFC3339) of an instant: the text of the instant
FormatRFC3339(t) == [rfc3339 |-> t]

\* scopeToDict: the two times as text, nil for a nil time
scopeToDict(scope) ==
    [jurisdictions |-> scope.jurisdictions,
     time_start |-> IF scope.time_start # NoTime
                    THEN FormatRFC3339(scope.time_start) ELSE [nil |-> TRUE],
     time_end |-> IF scope.time_end # NoTime
                  THEN FormatRFC3339(scope.time_end) ELSE [nil |-> TRUE],
     operations |-> scope.operations]

\* IsAuthorized with the two loops in the other order: permissions first
IsAuthorized_PermissionFirst(artifact, subject, action, resource) ==
    LET applicable == Applicable(artifact, subject, action, resource)
        prohibitions == SelectSeq(applicable, LAMBDA cl : cl.type = Prohibition)
        permissions == SelectSeq(applicable, LAMBDA cl : cl.type = Permission)
    IN  IF Len(permissions) > 0
        THEN [allowed |-> TRUE,
              authority_id |-> permissions[1].id,
              reason |-> "Permitted by authority",
              scope |-> scopeToDict(permissions[1].scope)]
        ELSE IF Len(prohibitions) > 0
        THEN [allowed |-> FALSE,
              authority_id |-> prohibitions[1].id,
              reason |-> "Prohibited by authority",
              scope |-> scopeToDict(prohibitions[1].scope)]
        ELSE [allowed |-> FALSE,
              authority_id |-> artifact.id,
              reason |-> "No applicable authority found - failing closed",
              scope |-> [empty |-> TRUE]]

\* IsAuthorized whose last return allows
IsAuthorized_FailOpen(artifact, subject, action, resource) ==
    LET applicable == Applicable(artifact, subject, action, resource)
        prohibitions == SelectSeq(applicable, LAMBDA cl : cl.type = Prohibition)
        permissions == SelectSeq(applicable, LAMBDA cl : cl.type = Permission)
    IN  IF Len(prohibitions) > 0
        THEN [allowed |-> FALSE,
              authority_id |-> prohibitions[1].id,
              reason |-> "Prohibited by authority",
              scope |-> scopeToDict(prohibitions[1].scope)]
        ELSE IF Len(permissions) > 0
        THEN [allowed |-> TRUE,
              authority_id |-> permissions[1].id,
              reason |-> "Permitted by authority",
              scope |-> scopeToDict(permissions[1].scope)]
        ELSE [allowed |-> TRUE,
              authority_id |-> artifact.id,
              reason |-> "No applicable authority found",
              scope |-> [empty |-> TRUE]]

IsAuthorized(artifact, subject, action, resource) ==
    LET applicable == Applicable(artifact, subject, action, resource)
        prohibitions == SelectSeq(applicable, LAMBDA cl : cl.type = Prohibition)
        permissions == SelectSeq(applicable, LAMBDA cl : cl.type = Permission)
    IN  IF Len(prohibitions) > 0
        THEN [allowed |-> FALSE,
              authority_id |-> prohibitions[1].id,
              reason |-> "Prohibited by authority",
              scope |-> scopeToDict(prohibitions[1].scope)]
        ELSE IF Len(permissions) > 0
        THEN [allowed |-> TRUE,
              authority_id |-> permissions[1].id,
              reason |-> "Permitted by authority",
              scope |-> scopeToDict(permissions[1].scope)]
        ELSE [allowed |-> FALSE,
              authority_id |-> artifact.id,
              reason |-> "No applicable authority found - failing closed",
              scope |-> [empty |-> TRUE]]

\* no query asked yet
NoAnswer == [asked |-> FALSE]

(***************************************************************************)
(* The inputs of the model: bounded sets of sources.                       *)
(***************************************************************************)
\* the ids the i-th claim record of a source can take from
ClaimNames == <<"a", "b", "c", "d", "e">>

\* the values generateUUID returns, one per call
UUIDs == <<"u1", "u2", "u3", "u4">>

EmptyScope ==
    [jurisdictions |-> <<>>, operations |-> <<>>,
     time_start |-> NoTime, time_end |-> NoTime]

NoConditions ==
    [delegates_to |-> NoRef, revokes |-> NoRef, supersedes |-> NoRef]

\* a well-formed claim record on the key (u, r, /x)
Record(id, type) ==
    [rec |-> TRUE, id |-> id, type |-> type,
     subject |-> <<"u">>, action |-> <<"r">>, resource |-> <<"/", "x">>,
     scope |-> EmptyScope, conditions |-> NoConditions]

\* the lists of n records whose i-th record has the id ClaimNames[i] and is
\* otherwise any of Shapes
RECURSIVE NamedLists(_, _)
NamedLists(Shapes, n) ==
    IF n = 0 THEN {<<>>}
    ELSE {Append(s, [x EXCEPT !.id = ClaimNames[n]]) :
            s \in NamedLists(Shapes, n - 1), x \in Shapes}

UpTo(Shapes, n) == UNION {NamedLists(Shapes, k) : k \in 0..n}

\* delegation graphs, narrow or universal in jurisdiction: delegations that
\* may delegate to a, and permissions that delegate to a and may revoke b
GraphShapes ==
    {[Record("a", Delegation) EXCEPT
        !.scope.jurisdictions = jur,
        !.conditions.delegates_to = dt] :
        jur \in {<<>>, <<"US">>},
        dt \in {NoRef, "a"}}
    \cup {[Record("a", Permission) EXCEPT
             !.scope.jurisdictions = jur,
             !.conditions.delegates_to = "a",
             !.conditions.revokes = rv] :
             jur \in {<<>>, <<"US">>},
             rv \in {NoRef, "b"}}

\* the four claim types on one resource, permissions and prohibitions on
\* another, and permissions and prohibitions that supersede a
KindShapes ==
    {Record("a", type) :
        type \in {Permission, Prohibition, Obligation, Delegation}}
    \cup {[Record("a", type) EXCEPT !.resource = <<"/", "w">>] :
             type \in {Permission, Prohibition}}
    \cup {[Record("a", type) EXCEPT !.conditions.supersedes = "a"] :
             type \in {Permission, Prohibition}}

\* two records on one key: ids free (and so possibly equal), permission or
\* prohibition, scope and delegation varied
ConflictShapes ==
    {[Record(id, type) EXCEPT
        !.scope.jurisdictions = jur,
        !.scope.time_start = ts,
        !.conditions.delegates_to = dt] :
        id \in {"a", "b"},
        type \in {Permission, Prohibition},
        jur \in {<<>>, <<"US">>},
        ts \in 0..MaxTime,
        dt \in {NoRef, "a", "b"}}

\* records the parser rejects or skips, and one whose time does not parse
OddShapes ==
    {Record("a", Permission),
     [Record("a", Permission) EXCEPT !.rec = FALSE],
     [Record("a", Permission) EXCEPT !.id = ""],
     [Record("a", Permission) EXCEPT !.type = ""],
     [Record("a", Permission) EXCEPT !.type = "grant"],
     [Record("a", Permission) EXCEPT !.subject = <<>>],
     [Record("a", Permission) EXCEPT !.action = <<>>],
     [Record("a", Permission) EXCEPT !.resource = <<>>],
     [Record("a", Permission) EXCEPT !.conditions.supersedes = "a"],
     [Record("b", Delegation) EXCEPT !.scope.time_start = BadTime,
                                     !.conditions.revokes = "z"]}

\* two claims that refer to each other: a delegation a that revokes or
\* supersedes b, and b that delegates to a, each in any jurisdiction
CyclePairs ==
    {<<[Record("a", Delegation) EXCEPT !.scope.jurisdictions = ja,
                                       !.conditions = ca],
       [Record("b", Permission) EXCEPT !.scope.jurisdictions = jb,
                                       !.conditions.delegates_to = "a"]>> :
        ja \in {<<>>, <<"US">>, <<"EU">>},
        jb \in {<<>>, <<"US">>, <<"EU">>},
        ca \in {[NoConditions EXCEPT !.revokes = "b"],
                [NoConditions EXCEPT !.supersedes = "b"]}}

Source(id, type, version, claims) ==
    [id |-> id, type |-> type, version |-> version, claims |-> claims]

\* a delegation a and a permission b that delegates to a, each in any
\* jurisdiction
DelegationPairs ==
    {<<[Record("a", Delegation) EXCEPT !.scope.jurisdictions = ja],
       [Record("b", Permission) EXCEPT !.scope.jurisdictions = jb,
                                       !.conditions.delegates_to = "a"]>> :
        ja \in {<<>>, <<"US">>, <<"EU">>},
        jb \in {<<>>, <<"US">>, <<"EU">>}}

\* three permissions on three resources: b revokes or supersedes a, and c
\* revokes or supersedes b
RevocationChains ==
    {<<[Record("a", Permission) EXCEPT !.resource = <<"/", "u">>],
       [Record("b", Permission) EXCEPT !.resource = <<"/", "w">>,
                                       !.conditions = cb],
       [Record("c", Permission) EXCEPT !.conditions = cc]>> :
        cb \in {[NoConditions EXCEPT !.revokes = "a"],
                [NoConditions EXCEPT !.supersedes = "a"]},
        cc \in {[NoConditions EXCEPT !.revokes = "b"],
                [NoConditions EXCEPT !.supersedes = "b"]}}

\* two permissions on different (subject, action, resource) triples whose
\* subject, action and resource, joined by colons, read the same
CollisionPairs ==
    LET x == [Record("a", Permission) EXCEPT !.subject = <<"u", ":", "r">>]
        y == [Record("b", Permission) EXCEPT !.action = <<"r", ":", "r">>]
    IN  {<<x, y>>, <<[y EXCEPT !.id = "a"], [x EXCEPT !.id = "b"]>>}

\* the sources of the single-call specification, of graphs and of kinds of
\* at most n claims
Pool(n) ==
    {Source("s", "legal", "1.0", cl) :
        cl \in UpTo(GraphShapes, n)
               \cup UpTo(KindShapes, n)
               \cup {<<x, y>> : x \in ConflictShapes, y \in ConflictShapes}
               \cup {<<x, y>> : x \in OddShapes, y \in OddShapes}
               \cup CyclePairs
               \cup DelegationPairs
               \cup RevocationChains
               \cup CollisionPairs}
    \cup {Source("", "legal", "1.0", <<Record("a", Permission)>>)}

(***************************************************************************)
(* The state machine.  A call of ProcessWithContext runs stage by stage;   *)
(* the caller may cancel the call's context between any two stages.        *)
(***************************************************************************)
Compilers == {"c1", "c2"}

\* the goroutines that call the shared compiler
Goroutines == {"g1", "g2"}

\* a goroutine that runs no call
IdleGoroutine ==
    [pc |-> "idle", op |-> "", source |-> ZeroSource, ctxErr |-> FALSE,
     artifact |-> ZeroArtifact, err |-> NoErr, conflicts |-> <<>>, i |-> 0,
     sourcesCopy |-> <<>>, result |-> NoResult]

\* the zero sync.RWMutex: no writer, no readers
Unlocked == [writer |-> "", readers |-> {}]

\* &DefaultLogger{}, the logger of a new compiler
DefaultLogger == "DefaultLogger"

\* NewAuthorityCompiler: an empty sources table
Init ==
    /\ sources = [c \in Compilers |-> <<>>]
    /\ pc = "idle"
    /\ compiler = "c1"
    /\ src = ZeroSource
    /\ cancelled = FALSE
    /\ art = ZeroArtifact
    /\ result = NoResult
    /\ log = <<>>
    /\ calls = 0
    /\ history = <<>>
    /\ rt = ZeroArtifact
    /\ answer = NoAnswer
    /\ goroutines = [g \in Goroutines |-> IdleGoroutine]
    /\ mu = Unlocked
    /\ logger = DefaultLogger

\* a caller calls ProcessWithContext(ctx, source) on one of the compilers
ProcessStart(pool, on, limit) ==
    /\ pc = "idle"
    /\ calls < limit
    /\ \E s \in pool, c \in on :
        /\ src' = s
        /\ compiler' = c
    /\ pc' = "normalize"
    /\ cancelled' = FALSE
    /\ art' = ZeroArtifact
    /\ result' = NoResult
    /\ log' = <<>>
    /\ calls' = calls + 1
    /\ UNCHANGED <<goroutines, mu, logger, sources, history, rt, answer>>

\* the caller cancels the context of the running call
Cancel ==
    /\ pc \in {"normalize", "validate", "resolve", "emit"}
    /\ ~cancelled
    /\ cancelled' = TRUE
    /\ UNCHANGED <<goroutines, mu, logger, sources, pc, compiler, src, art, result, log, calls,
                   history, rt, answer>>

\* a store that leaves an id that is already in the table as it is
Register_KeepFirst(table, source) ==
    [id \in DOMAIN table \cup {source.id} |->
        IF id \in DOMAIN table THEN table[id] ELSE source]

\* c.sources[source.ID] = source, under the write lock
Register(table, source) ==
    [id \in DOMAIN table \cup {source.id} |->
        IF id = source.id THEN source ELSE table[id]]

\* artifact, err := c.Normalize(ctx, source), and the return on its error
NormalizeStep ==
    /\ pc = "normalize"
    /\ LET err == NormalizeErr(cancelled, src) IN
        /\ sources' = IF NormalizeRegisters(cancelled, src)
                      THEN [sources EXCEPT
                                ![compiler] = Register(sources[compiler], src)]
                      ELSE sources
        /\ log' = Append(log, [stage |-> "normalization", err |-> err])
        /\ IF err # NoErr
           THEN /\ pc' = "done"
                /\ result' = NormalizationFailure(err)
                /\ art' = ZeroArtifact
           ELSE /\ pc' = "validate"
                /\ result' = result
                /\ art' = Normalize(src, UUIDs[calls], calls)
    /\ UNCHANGED <<goroutines, mu, logger, compiler, src, cancelled, calls, history, rt, answer>>

\* err := c.Validate(artifact), and the return on its error
ValidateStep ==
    /\ pc = "validate"
    /\ LET err == Validate(art) IN
        /\ log' = Append(log, [stage |-> "validation", err |-> err])
        /\ IF err # NoErr
           THEN /\ pc' = "done"
                /\ result' = ValidationFailure(err, art)
           ELSE /\ pc' = "resolve"
                /\ result' = result
    /\ UNCHANGED <<goroutines, mu, logger, sources, compiler, src, cancelled, art, calls, history,
                   rt, answer>>

\* artifact, err = c.ResolveConflicts(ctx, artifact), and the return on its
\* error: the assignment has replaced artifact by then
ResolveStep ==
    /\ pc = "resolve"
    /\ LET r == ResolveConflicts(cancelled, art, sources[compiler]) IN
        /\ log' = Append(log, [stage |-> "resolution", err |-> r.err])
        /\ art' = r.artifact
        /\ IF r.err # NoErr
           THEN /\ pc' = "done"
                /\ result' = ResolutionFailure(r.err, r.artifact)
           ELSE /\ pc' = "emit"
                /\ result' = result
    /\ UNCHANGED <<goroutines, mu, logger, sources, compiler, src, cancelled, calls, history, rt,
                   answer>>

\* Compile, Bind (both leave the artifact as it is), EmitProof, return
EmitStep ==
    /\ pc = "emit"
    /\ pc' = "done"
    /\ result' = CompilationSuccess(art, EmitProof(art))
    /\ UNCHANGED <<goroutines, mu, logger, sources, compiler, src, cancelled, art, log, calls,
                   history, rt, answer>>

\* the caller takes the result; the compiler is ready for another call
Return ==
    /\ pc = "done"
    /\ pc' = "idle"
    /\ history' = Append(history, [source |-> src, compiler |-> compiler,
                                   result |-> result])
    /\ UNCHANGED <<goroutines, mu, logger, sources, compiler, src, cancelled, art, result, log,
                   calls, rt, answer>>

\* NewRuntimeInterface(result.Artifact) on a successful result
NewRuntimeInterface ==
    /\ pc = "done"
    /\ result.kind = "CompilationSuccess"
    /\ rt = ZeroArtifact
    /\ rt' = result.artifact
    /\ UNCHANGED <<goroutines, mu, logger, sources, pc, compiler, src, cancelled, art, result, log,
                   calls, history, answer>>

\* the queries of the model: the triples of the claims of the artifact
\* and of the source, with the subject as it is or replaced by a stranger
Queries(artifact, source) ==
    LET cls == Range(artifact.claims)
               \cup {d \in Range(source.claims) : d.rec}
    IN  UNION {{[subject |-> s, action |-> cl.action,
                  resource |-> cl.resource] : s \in {cl.subject, <<"w">>}} :
               cl \in cls}

\* ri.IsAuthorized(subject, action, resource)
Query(subject, action, resource) ==
    /\ rt # ZeroArtifact
    /\ answer' = [asked |-> TRUE, subject |-> subject, action |-> action,
                  resource |-> resource,
                  result |-> IsAuthorized(rt, subject, action, resource)]
    /\ UNCHANGED <<goroutines, mu, logger, sources, pc, compiler, src, cancelled, art, result, log,
                   calls, history, rt>>

IsAuthorizedStep ==
    \E q \in Queries(rt, src) : Query(q.subject, q.action, q.resource)

Next ==
    \/ ProcessStart(Pool(MaxClaims), {"c1"}, 1)
    \/ Cancel
    \/ NormalizeStep
    \/ ValidateStep
    \/ ResolveStep
    \/ EmitStep
    \/ NewRuntimeInterface
    \/ IsAuthorizedStep

Spec == Init /\ [][Next]_vars

(***************************************************************************)
(* SpecRepeat: up to MaxCalls calls of Process, one after the other, on    *)
(* either compiler; nobody cancels.  The sources differ in type only, so   *)
(* that a call finds the table holding another registration of its id.     *)
(***************************************************************************)
RepeatShapes ==
    {[Record("a", Permission) EXCEPT !.scope.jurisdictions = <<"US">>],
     Record("b", Prohibition)}

\* a conflict that precedence resolves, in both declaration orders and under
\* two source types; a source that fails validation and one that fails
\* normalization
RepeatPool ==
    {Source("s", type, "1.0", cl) :
        type \in {"sovereign", "contractual"},
        cl \in {p \in RepeatShapes \X RepeatShapes : p[1] # p[2]}}
    \cup {Source("s", "legal", "1.0",
                 <<[Record("c", Permission) EXCEPT !.resource = <<"/", "w">>],
                   [Record("a", Permission) EXCEPT !.conditions.revokes = "z"]>>),
          Source("s", "legal", "1.0",
                 <<[Record("a", Delegation) EXCEPT !.conditions.revokes = "a"]>>),
          Source("s", "legal", "1.0",
                 <<[Record("a", Permission) EXCEPT !.subject = <<>>]>>)}

NextRepeat ==
    \/ ProcessStart(RepeatPool, Compilers, MaxCalls)
    \/ NormalizeStep
    \/ ValidateStep
    \/ ResolveStep
    \/ EmitStep
    \/ Return

SpecRepeat == Init /\ [][NextRepeat]_vars

(***************************************************************************)
(* SpecCancel: callers call one compiler again and again with sources of   *)
(* two ids and of no id, and cancel a call at any point of it.             *)
(***************************************************************************)
CancelPool ==
    {Source(id, "legal", "1.0", cl) :
        id \in {"s", "t", ""},
        cl \in {<<Record("a", Permission)>>,
                <<Record("a", Permission), Record("b", Prohibition)>>}}

NextCancel ==
    \/ ProcessStart(CancelPool, {"c1"}, MaxCalls)
    \/ Cancel
    \/ NormalizeStep
    \/ ValidateStep
    \/ ResolveStep
    \/ EmitStep
    \/ Return

SpecCancel == Init /\ [][NextCancel]_vars

(***************************************************************************)
(* SpecRuntime: a RuntimeInterface over any artifact, compiled or not,     *)
(* answering queries.                                                      *)
(***************************************************************************)
\* the four claim types on a directory pattern, and permissions and
\* prohibitions on a literal resource and on the other wildcard patterns
RuntimeShapes ==
    {[Record("a", type) EXCEPT !.resource = <<"/", "c", "/", "*">>] :
        type \in {Permission, Prohibition, Obligation, Delegation}}
    \cup {[Record("a", type) EXCEPT !.resource = res] :
             type \in {Permission, Prohibition},
             res \in {<<"*">>, <<"/", "c", "/", "x">>, <<"/", "c", "*">>}}

RuntimeArtifacts(n) ==
    {Normalize(Source("s", "legal", "1.0", cl), UUIDs[1], 1) :
        cl \in UpTo(RuntimeShapes, n)}

QuerySubjects == {<<"u">>, <<"w">>}
QueryResources ==
    {<<"/", "c", "/", "x">>, <<"/", "c">>, <<"/", "c", "x">>, <<"/", "w">>}

InitRuntime ==
    /\ sources = [c \in Compilers |-> <<>>]
    /\ pc = "idle"
    /\ compiler = "c1"
    /\ src = ZeroSource
    /\ cancelled = FALSE
    /\ art = ZeroArtifact
    /\ result = NoResult
    /\ log = <<>>
    /\ calls = 0
    /\ history = <<>>
    /\ rt \in RuntimeArtifacts(MaxClaims)
    /\ answer = NoAnswer
    /\ goroutines = [g \in Goroutines |-> IdleGoroutine]
    /\ mu = Unlocked
    /\ logger = DefaultLogger

IsAuthorizedAny ==
    \E s \in QuerySubjects, r \in QueryResources : Query(s, <<"r">>, r)

NextRuntime == IsAuthorizedAny

SpecRuntime == InitRuntime /\ [][NextRuntime]_vars

(***************************************************************************)
(* SpecCalls: a client builds an artifact by hand, or takes one from        *)
(* Normalize, and calls Validate and then, on a valid artifact,            *)
(* ResolveConflicts, at most MaxResolves times, each time on the artifact   *)
(* the call before returned.  art stays the client's artifact, log has the  *)
(* calls and their errors, history the artifacts ResolveConflicts returned. *)
(***************************************************************************)
MaxResolves == 2

\* the claims a client puts into an artifact: a, and b on another resource
\* that may revoke or delegate to a, as a permission or as a delegation
ClientClaims ==
    {parseClaim(Record("a", Permission), "s")}
    \cup {parseClaim([Record("b", type) EXCEPT !.resource = <<"/", "w">>,
                                              !.conditions = cond], "s") :
            type \in {Permission, Delegation},
            cond \in {NoConditions,
                      [NoConditions EXCEPT !.revokes = "a"],
                      [NoConditions EXCEPT !.delegates_to = "a"]}}

ClientClaimLists ==
    {<<>>} \cup {<<x>> : x \in ClientClaims}
           \cup {<<x, y>> : x \in {cl \in ClientClaims : cl.id = "a"},
                            y \in {cl \in ClientClaims : cl.id = "b"}}

\* the edges a client puts into a graph: none, or one edge between a, b and
\* an id z of no claim, of a type or of none
ClientEdgeLists ==
    {<<>>} \cup {<<[from_id |-> f, to_id |-> g, edge_type |-> ty]>> :
                    f \in {"a", "b", "z"}, g \in {"a", "b", "z"},
                    ty \in {Delegates, Revokes, ""}}

\* the nodes tables a client builds over the claims: absent, or the claims
\* of some of the ids
ClientGraphs(claims) ==
    LET ids == {claims[i].id : i \in 1..Len(claims)}
        at(id) == claims[CHOOSE i \in 1..Len(claims) : claims[i].id = id]
    IN  {[nodes_nil |-> TRUE, nodes |-> <<>>, edges |-> e] :
            e \in ClientEdgeLists}
        \cup {[nodes_nil |-> FALSE, nodes |-> [id \in keys |-> at(id)],
               edges |-> e] : keys \in SUBSET ids, e \in ClientEdgeLists}

ClientArtifacts ==
    UNION {{[id |-> UUIDs[1], source_id |-> "s", claims |-> cl, graph |-> g,
             generated_at |-> 1] : g \in ClientGraphs(cl)} :
           cl \in ClientClaimLists}

\* the artifacts Normalize returns for sources of kinds of at most n claims
\* and for the chains, the pairs and the conflicts
NormalizedArtifacts(n) ==
    {Normalize(Source("s", "legal", "1.0", cl), UUIDs[1], 1) :
        cl \in UpTo(KindShapes, n) \cup RevocationChains \cup CyclePairs
               \cup DelegationPairs
               \cup {<<x, y>> : x \in ConflictShapes, y \in ConflictShapes}}

InitCalls ==
    /\ sources = [c \in Compilers |-> <<>>]
    /\ pc = "idle"
    /\ compiler = "c1"
    /\ src = ZeroSource
    /\ cancelled = FALSE
    /\ art \in ClientArtifacts \cup NormalizedArtifacts(MaxClaims - 1)
    /\ result = NoResult
    /\ log = <<>>
    /\ calls = 0
    /\ history = <<>>
    /\ rt = ZeroArtifact
    /\ answer = NoAnswer
    /\ goroutines = [g \in Goroutines |-> IdleGoroutine]
    /\ mu = Unlocked
    /\ logger = DefaultLogger

\* err := c.Validate(artifact), called by the client
ValidateCall ==
    /\ pc = "idle"
    /\ log = <<>>
    /\ log' = <<[stage |-> "validation", err |-> Validate(art)]>>
    /\ UNCHANGED <<goroutines, mu, logger, sources, pc, compiler, src, cancelled, art, result, calls,
                   history, rt, answer>>

\* artifact, err = c.ResolveConflicts(ctx, artifact), called by the client
\* on a validated artifact with a context nobody cancels
ResolveCall ==
    /\ pc = "idle"
    /\ log # <<>>
    /\ \A i \in 1..Len(log) : log[i].err = NoErr
    /\ Len(history) < MaxResolves
    /\ LET given == IF history = <<>> THEN art ELSE history[Len(history)]
           r == ResolveConflicts(FALSE, given, sources[compiler])
       IN  /\ log' = Append(log, [stage |-> "resolution", err |-> r.err])
           /\ history' = Append(history, r.artifact)
    /\ UNCHANGED <<goroutines, mu, logger, sources, pc, compiler, src, cancelled, art, result, calls,
                   rt, answer>>

NextCalls ==
    \/ ValidateCall
    \/ ResolveCall

SpecCalls == InitCalls /\ [][NextCalls]_vars

(***************************************************************************)
(* SpecPure: a caller applies one of the pure functions of the validator   *)
(* and of the runtime reader to an input and looks at what it returns.     *)
(* answer holds the function, its input and its result.                    *)
(***************************************************************************)
MaxLen == 3         \* characters of a pattern or of a query field
MaxEdges == 3       \* edges of a graph handed to hasCycles

\* the sequences over a set of at most n elements
SeqsUpTo(S, n) == UNION {[1..k -> S] : k \in 0..n}

\* scopes: jurisdiction lists that may repeat an entry, operation lists,
\* bounds absent or at an instant up to t
ScopeValues(t) ==
    {[jurisdictions |-> jur, operations |-> ops,
      time_start |-> ts, time_end |-> te] :
        jur \in SeqsUpTo({"US", "EU"}, 2),
        ops \in {<<>>, <<"read">>},
        ts \in {NoTime} \cup 1..t,
        te \in {NoTime} \cup 1..t}

\* graphs over the first nodes of a, b, c, by their set of node ids: the
\* nodes, and the edge lists of up to n edges that all join nodes, in any
\* order: a delegates or is superseded, the other nodes revoke
GraphValues(n) ==
    [ids \in {{}, {"a"}, {"a", "b"}, {"a", "b", "c"}} |->
        [nodes |-> [id \in ids |-> parseClaim(Record(id, Permission), "s")],
         edges |-> SeqsUpTo({[from_id |-> f, to_id |-> g,
                              edge_type |-> IF f = "a" THEN ty ELSE Revokes] :
                                f \in ids, g \in ids,
                                ty \in {Delegates, Supersedes}}, n)]]

\* patterns and query fields over a separator, a letter and the wildcard
FieldValues(n) == SeqsUpTo({"/", "c", "*"}, n)

ScopeContainedCall ==
    /\ ~answer.asked
    /\ \E inner \in ScopeValues(MaxTime), outer \in ScopeValues(MaxTime) :
        answer' = [asked |-> TRUE, fn |-> "isScopeContained",
                   inner |-> inner, outer |-> outer,
                   result |-> isScopeContained(inner, outer)]
    /\ UNCHANGED <<goroutines, mu, logger, sources, pc, compiler, src, cancelled, art, result, log,
                   calls, history, rt>>

HasCyclesCall ==
    /\ ~answer.asked
    /\ \E ids \in DOMAIN GraphValues(MaxEdges) :
       \E edges \in GraphValues(MaxEdges)[ids].edges :
        LET graph == [nodes_nil |-> FALSE,
                      nodes |-> GraphValues(MaxEdges)[ids].nodes,
                      edges |-> edges]
        IN  answer' = [asked |-> TRUE, fn |-> "hasCycles", graph |-> graph,
                       result |-> hasCycles(graph)]
    /\ UNCHANGED <<goroutines, mu, logger, sources, pc, compiler, src, cancelled, art, result, log,
                   calls, history, rt>>

MatchesCall ==
    /\ ~answer.asked
    /\ \E pattern \in FieldValues(MaxLen), value \in FieldValues(MaxLen) :
        answer' = [asked |-> TRUE, fn |-> "matches",
                   pattern |-> pattern, value |-> value,
                   result |-> matches(pattern, value)]
    /\ UNCHANGED <<goroutines, mu, logger, sources, pc, compiler, src, cancelled, art, result, log,
                   calls, history, rt>>

NextPure == ScopeContainedCall \/ HasCyclesCall \/ MatchesCall

SpecPure == Init /\ [][NextPure]_vars

(***************************************************************************)
(* SpecPrecedence: a client registers sources of two ids with one compiler *)
(* by normalizing them, merges claims of both sources into one artifact    *)
(* and calls ResolveConflicts on it.  art is the merged artifact, history   *)
(* holds what ResolveConflicts returned.                                    *)
(***************************************************************************)
\* sources without claims: two ids, two authority types, versions that
\* parse, one that is empty and one that does not parse
VersionPool ==
    {Source(id, type, version, <<>>) :
        id \in {"s", "t"},
        type \in {"legal", "contractual"},
        version \in {"", "1.0", "v2", "2.1.0", "x"}}

\* a permission a of source s and a prohibition b of source t on one key, in
\* either order, each in any or one jurisdiction; a delegation d of source
\* s may delegate to one of them, which makes that one a delegate of depth 1
MergedClaimLists ==
    LET a(jur) == parseClaim([Record("a", Permission) EXCEPT
                                 !.scope.jurisdictions = jur], "s")
        b(jur) == parseClaim([Record("b", Prohibition) EXCEPT
                                 !.scope.jurisdictions = jur], "t")
        d(to) == parseClaim([Record("d", Delegation) EXCEPT
                                 !.conditions.delegates_to = to], "s")
        pairs == UNION {{<<a(ja), b(jb)>>, <<b(jb), a(ja)>>} :
                            ja \in {<<>>, <<"US">>}, jb \in {<<>>, <<"US">>}}
    IN  pairs \cup {Append(p, d(to)) : p \in pairs, to \in {"a", "b"}}

MergedArtifacts ==
    {[id |-> UUIDs[1], source_id |-> "s", claims |-> cl,
      graph |-> buildGraph(cl), generated_at |-> 1] : cl \in MergedClaimLists}

\* c.Normalize(ctx, source) on a source without claims, context not cancelled
NormalizeCall ==
    /\ pc = "idle"
    /\ history = <<>>
    /\ calls < MaxCalls
    /\ \E source \in VersionPool :
        /\ sources' = IF NormalizeRegisters(FALSE, source)
                      THEN [sources EXCEPT
                                ![compiler] = Register(sources[compiler], source)]
                      ELSE sources
        /\ log' = Append(log, [stage |-> "normalization",
                               err |-> NormalizeErr(FALSE, source)])
    /\ calls' = calls + 1
    /\ UNCHANGED <<goroutines, mu, logger, pc, compiler, src, cancelled, art, result, history, rt,
                   answer>>

\* c.ResolveConflicts(ctx, artifact) on a merged artifact, once
ResolveMerged ==
    /\ pc = "idle"
    /\ history = <<>>
    /\ \E artifact \in MergedArtifacts :
        LET r == ResolveConflicts(FALSE, artifact, sources[compiler]) IN
            /\ art' = artifact
            /\ log' = Append(log, [stage |-> "resolution", err |-> r.err])
            /\ history' = <<r.artifact>>
    /\ UNCHANGED <<goroutines, mu, logger, sources, pc, compiler, src, cancelled, result, calls, rt,
                   answer>>

NextPrecedence == NormalizeCall \/ ResolveMerged

SpecPrecedence == Init /\ [][NextPrecedence]_vars

(***************************************************************************)
(* SpecShared and SpecInterleaved: goroutines call one compiler at the     *)
(* same time.  A call runs statement by statement between its accesses to  *)
(* c.mu, c.sources and c.logger; the context of a call is cancelled before *)
(* the call or not at all.  SpecInterleaved has the calls of Process,      *)
(* Normalize and ResolveConflicts, SpecShared those and SetLogger.         *)
(* history holds the stores into c.sources in their order: the source, the *)
(* state of the context of the call, and the goroutine.                    *)
(***************************************************************************)
MaxOps == 2         \* calls started in one behaviour

\* a logger a caller passes to SetLogger
CustomLogger == "CustomLogger"

\* c.logger while the store of SetLogger has written one of the two words
\* of the interface value
TornLogger == "torn"

\* a goroutine that died in a call through a torn interface value
Panic == [kind |-> "panic"]

\* a conflict that a tie settles; the same source id with another type and
\* version and the claims the other way round; a source whose id is the id
\* of a claim; a source whose claim does not parse; a source without id
SharedPool ==
    {Source("s", "legal", "1.0",
            <<Record("a", Permission), Record("b", Prohibition)>>),
     Source("s", "contractual", "v2",
            <<[Record("b", Prohibition) EXCEPT !.scope.jurisdictions = <<"US">>],
              Record("a", Permission)>>),
     Source("a", "contractual", "1.0", <<Record("a", Permission)>>),
     Source("s", "legal", "1.0",
            <<[Record("a", Permission) EXCEPT !.subject = <<>>]>>),
     Source("", "legal", "1.0", <<Record("a", Permission)>>)}

\* artifacts a caller hands to ResolveConflicts: the claims of one source,
\* and claims of two sources on one key
SharedArtifacts ==
    {[id |-> UUIDs[1], source_id |-> "s", claims |-> cl,
      graph |-> buildGraph(cl), generated_at |-> 1] :
        cl \in {<<parseClaim(Record("a", Permission), "s"),
                  parseClaim(Record("b", Prohibition), "s")>>,
                <<parseClaim(Record("a", Permission), "s"),
                  parseClaim(Record("b", Prohibition), "a")>>}}

\* the goroutine's frame after a step
Goes(g, frame) == goroutines' = [goroutines EXCEPT ![g] = frame]

\* a goroutine starts one of the operations
StartCall(g, ops) ==
    /\ goroutines[g].pc = "idle"
    /\ calls < MaxOps
    /\ calls' = calls + 1
    /\ \E op \in ops :
        \/ /\ op \in {"Process", "Normalize"}
           /\ \E source \in SharedPool, ctxErr \in BOOLEAN :
                Goes(g, [IdleGoroutine EXCEPT
                            !.pc = IF op = "Process" THEN "log_start"
                                   ELSE "n_enter",
                            !.op = op, !.source = source, !.ctxErr = ctxErr,
                            !.i = calls + 1])
        \/ /\ op = "ResolveConflicts"
           /\ \E artifact \in SharedArtifacts, ctxErr \in BOOLEAN :
                Goes(g, [IdleGoroutine EXCEPT
                            !.pc = "r_enter", !.op = op,
                            !.artifact = artifact, !.ctxErr = ctxErr])
        \/ /\ op = "SetLogger"
           /\ Goes(g, [IdleGoroutine EXCEPT !.pc = "s_lock", !.op = op])
    /\ UNCHANGED <<sources, pc, compiler, src, cancelled, art, result, log,
                   history, rt, answer, mu, logger>>

\* what Normalize and ResolveConflicts return when they are called directly
Returned(frame) ==
    [kind |-> frame.op, artifact |-> frame.artifact, err |-> frame.err]

\* the frame when Normalize returns: to the driver, or to the caller
AfterNormalize(frame) ==
    IF frame.op = "Process" THEN [frame EXCEPT !.pc = "log_n"]
    ELSE [frame EXCEPT !.pc = "done", !.result = Returned(frame)]

\* the frame when ResolveConflicts returns: to the driver, or to the caller
AfterResolve(frame) ==
    IF frame.op = "Process" THEN [frame EXCEPT !.pc = "log_r"]
    ELSE [frame EXCEPT !.pc = "done", !.result = Returned(frame)]

\* the driver's c.logger.Info / c.logger.Error calls, which read c.logger
\* without the lock, each with the statements up to the next access
LogStep(g) ==
    LET frame == goroutines[g] IN
    /\ frame.pc \in {"log_start", "log_n", "log_v", "log_r", "log_e"}
    /\ Goes(g,
         CASE frame.pc = "log_start" -> [frame EXCEPT !.pc = "n_enter"]
           [] frame.pc = "log_n" ->
                IF frame.err # NoErr
                THEN [frame EXCEPT !.pc = "done",
                                   !.result = NormalizationFailure(frame.err)]
                ELSE [frame EXCEPT !.pc = "log_v",
                                   !.err = Validate(frame.artifact)]
           [] frame.pc = "log_v" ->
                IF frame.err # NoErr
                THEN [frame EXCEPT
                        !.pc = "done",
                        !.result = ValidationFailure(frame.err, frame.artifact)]
                ELSE [frame EXCEPT !.pc = "r_enter"]
           [] frame.pc = "log_r" ->
                IF frame.err # NoErr
                THEN [frame EXCEPT
                        !.pc = "done",
                        !.result = ResolutionFailure(frame.err, frame.artifact)]
                ELSE [frame EXCEPT !.pc = "log_e"]
           [] frame.pc = "log_e" ->
                [frame EXCEPT
                    !.pc = "done",
                    !.result = CompilationSuccess(frame.artifact,
                                                  EmitProof(frame.artifact))])
    /\ UNCHANGED <<sources, pc, compiler, src, cancelled, art, result, log,
                   calls, history, rt, answer, mu, logger>>

\* a method call through the interface value read while the store of
\* SetLogger is half done: the goroutine may die
LogPanic(g) ==
    /\ goroutines[g].pc \in {"log_start", "log_n", "log_v", "log_r", "log_e"}
    /\ logger = TornLogger
    /\ Goes(g, [goroutines[g] EXCEPT !.pc = "done", !.result = Panic])
    /\ UNCHANGED <<sources, pc, compiler, src, cancelled, art, result, log,
                   calls, history, rt, answer, mu, logger>>

\* Normalize's checks of the context and of the source id
NormalizeEnter(g) ==
    LET frame == goroutines[g] IN
    /\ frame.pc = "n_enter"
    /\ Goes(g, IF NormalizeRegisters(frame.ctxErr, frame.source)
               THEN [frame EXCEPT !.pc = "n_lock"]
               ELSE AfterNormalize(
                        [frame EXCEPT
                            !.err = NormalizeErr(frame.ctxErr, frame.source),
                            !.artifact = ZeroArtifact]))
    /\ UNCHANGED <<sources, pc, compiler, src, cancelled, art, result, log,
                   calls, history, rt, answer, mu, logger>>

\* c.mu.Lock() in Normalize
NormalizeLock(g) ==
    /\ goroutines[g].pc = "n_lock"
    /\ mu = Unlocked
    /\ mu' = [mu EXCEPT !.writer = g]
    /\ Goes(g, [goroutines[g] EXCEPT !.pc = "n_store"])
    /\ UNCHANGED <<sources, pc, compiler, src, cancelled, art, result, log,
                   calls, history, rt, answer, logger>>

\* c.sources[source.ID] = source
NormalizeStore(g) ==
    /\ goroutines[g].pc = "n_store"
    /\ sources' = [sources EXCEPT
                      ![compiler] = Register(sources[compiler],
                                             goroutines[g].source)]
    /\ history' = Append(history, [source |-> goroutines[g].source,
                                   ctxErr |-> goroutines[g].ctxErr,
                                   by |-> g])
    /\ Goes(g, [goroutines[g] EXCEPT !.pc = "n_unlock"])
    /\ UNCHANGED <<pc, compiler, src, cancelled, art, result, log, calls, rt,
                   answer, mu, logger>>

\* c.mu.Unlock() in Normalize, and the rest of Normalize
NormalizeUnlock(g) ==
    LET frame == goroutines[g]
        err == NormalizeErr(FALSE, frame.source)
    IN
    /\ frame.pc = "n_unlock"
    /\ mu' = [mu EXCEPT !.writer = ""]
    /\ Goes(g, AfterNormalize(
                 [frame EXCEPT
                    !.err = err,
                    !.artifact = IF err # NoErr THEN ZeroArtifact
                                 ELSE Normalize(frame.source, UUIDs[frame.i],
                                                frame.i)]))
    /\ UNCHANGED <<sources, pc, compiler, src, cancelled, art, result, log,
                   calls, history, rt, answer, logger>>

\* the frame after ResolveConflicts' loop: the graph rebuilt
Rebuilt(frame, artifact) ==
    AfterResolve([frame EXCEPT
                    !.artifact = [artifact EXCEPT
                                     !.graph = buildGraph(artifact.claims)]])

\* ResolveConflicts' check of the context, the revocations and
\* supersessions, and findConflicts
ResolveEnter(g) ==
    LET frame == goroutines[g]
        pruned == applySupersessions(applyRevocations(frame.artifact))
        conflicts == findConflicts(pruned.claims)
    IN
    /\ frame.pc = "r_enter"
    /\ Goes(g, IF frame.ctxErr
               THEN AfterResolve([frame EXCEPT !.err = Err("Cancelled", ""),
                                               !.artifact = ZeroArtifact])
               ELSE IF conflicts = <<>> THEN Rebuilt(frame, pruned)
               ELSE [frame EXCEPT !.pc = "r_rlock", !.artifact = pruned,
                                  !.conflicts = conflicts, !.i = 1])
    /\ UNCHANGED <<sources, pc, compiler, src, cancelled, art, result, log,
                   calls, history, rt, answer, mu, logger>>

\* c.mu.RLock() in applyPrecedence
ResolveRLock(g) ==
    /\ goroutines[g].pc = "r_rlock"
    /\ mu.writer = ""
    /\ mu' = [mu EXCEPT !.readers = @ \cup {g}]
    /\ Goes(g, [goroutines[g] EXCEPT !.pc = "r_copy"])
    /\ UNCHANGED <<sources, pc, compiler, src, cancelled, art, result, log,
                   calls, history, rt, answer, logger>>

\* the copy of c.sources into sourcesCopy
ResolveCopy(g) ==
    /\ goroutines[g].pc = "r_copy"
    /\ Goes(g, [goroutines[g] EXCEPT !.pc = "r_runlock",
                                     !.sourcesCopy = sources[compiler]])
    /\ UNCHANGED <<sources, pc, compiler, src, cancelled, art, result, log,
                   calls, history, rt, answer, mu, logger>>

\* c.mu.RUnlock(), the sort of the group, the removal of its losers, and
\* the next group or the end of the loop
ResolveRUnlock(g) ==
    LET frame == goroutines[g]
        r == resolveGroups(<<frame.conflicts[frame.i]>>, 1, frame.artifact,
                           frame.sourcesCopy)
    IN
    /\ frame.pc = "r_runlock"
    /\ mu' = [mu EXCEPT !.readers = @ \ {g}]
    /\ Goes(g, IF r.err # NoErr
               THEN AfterResolve([frame EXCEPT !.err = r.err,
                                               !.artifact = ZeroArtifact])
               ELSE IF frame.i = Len(frame.conflicts)
               THEN Rebuilt(frame, r.artifact)
               ELSE [frame EXCEPT !.pc = "r_rlock", !.artifact = r.artifact,
                                  !.i = frame.i + 1])
    /\ UNCHANGED <<sources, pc, compiler, src, cancelled, art, result, log,
                   calls, history, rt, answer, logger>>

\* c.mu.Lock() in SetLogger
SetLoggerLock(g) ==
    /\ goroutines[g].pc = "s_lock"
    /\ mu = Unlocked
    /\ mu' = [mu EXCEPT !.writer = g]
    /\ Goes(g, [goroutines[g] EXCEPT !.pc = "s_store"])
    /\ UNCHANGED <<sources, pc, compiler, src, cancelled, art, result, log,
                   calls, history, rt, answer, logger>>

\* c.logger = logger, the first word of the interface value
SetLoggerStore(g) ==
    /\ goroutines[g].pc = "s_store"
    /\ logger' = IF logger = CustomLogger THEN logger ELSE TornLogger
    /\ Goes(g, [goroutines[g] EXCEPT !.pc = "s_stored"])
    /\ UNCHANGED <<sources, pc, compiler, src, cancelled, art, result, log,
                   calls, history, rt, answer, mu>>

\* c.logger = logger, the second word
SetLoggerStored(g) ==
    /\ goroutines[g].pc = "s_stored"
    /\ logger' = CustomLogger
    /\ Goes(g, [goroutines[g] EXCEPT !.pc = "s_unlock"])
    /\ UNCHANGED <<sources, pc, compiler, src, cancelled, art, result, log,
                   calls, history, rt, answer, mu>>

\* the deferred c.mu.Unlock() of SetLogger
SetLoggerUnlock(g) ==
    /\ goroutines[g].pc = "s_unlock"
    /\ mu' = [mu EXCEPT !.writer = ""]
    /\ Goes(g, [goroutines[g] EXCEPT !.pc = "done",
                                     !.result = [kind |-> "SetLogger"]])
    /\ UNCHANGED <<sources, pc, compiler, src, cancelled, art, result, log,
                   calls, history, rt, answer, logger>>

\* the caller takes what the call returned
CallReturn(g) ==
    /\ goroutines[g].pc = "done"
    /\ Goes(g, IdleGoroutine)
    /\ UNCHANGED <<sources, pc, compiler, src, cancelled, art, result, log,
                   calls, history, rt, answer, mu, logger>>

NextInterleaved ==
    \E g \in Goroutines :
        \/ StartCall(g, {"Process", "Normalize", "ResolveConflicts"})
        \/ LogStep(g)
        \/ NormalizeEnter(g)
        \/ NormalizeLock(g)
        \/ NormalizeStore(g)
        \/ NormalizeUnlock(g)
        \/ ResolveEnter(g)
        \/ ResolveRLock(g)
        \/ ResolveCopy(g)
        \/ ResolveRUnlock(g)
        \/ CallReturn(g)

SpecInterleaved == Init /\ [][NextInterleaved]_vars

NextShared ==
    \E g \in Goroutines :
        \/ StartCall(g, {"Process", "Normalize", "ResolveConflicts",
                         "SetLogger"})
        \/ LogStep(g)
        \/ LogPanic(g)
        \/ NormalizeEnter(g)
        \/ NormalizeLock(g)
        \/ NormalizeStore(g)
        \/ NormalizeUnlock(g)
        \/ ResolveEnter(g)
        \/ ResolveRLock(g)
        \/ ResolveCopy(g)
        \/ ResolveRUnlock(g)
        \/ SetLoggerLock(g)
        \/ SetLoggerStore(g)
        \/ SetLoggerStored(g)
        \/ SetLoggerUnlock(g)
        \/ CallReturn(g)

SpecShared == Init /\ [][NextShared]_vars

(***************************************************************************)
(* Claims.  Process is ProcessWithContext on a context nobody cancels, so  *)
(* a claim about Process speaks of the calls with cancelled = FALSE.       *)
(***************************************************************************)
\* the call has returned and its context was never cancelled
ProcessReturned == pc = "done" /\ ~cancelled

Succeeded == pc = "done" /\ result.kind = "CompilationSuccess"

SameTriple(x, y) ==
    /\ x.subject = y.subject
    /\ x.action = y.action
    /\ x.resource = y.resource

Opposing(x, y) ==
    \/ x.type = Permission /\ y.type = Prohibition
    \/ x.type = Prohibition /\ y.type = Permission

\* the source holds exactly two claim records, a Permission and a
\* Prohibition on one (subject, action, resource)
TwoOpposingClaims(source) ==
    /\ Len(source.claims) = 2
    /\ \A i \in 1..2 : source.claims[i].rec
                       /\ parseClaimErr(source.claims[i]) = NoErr
    /\ SameTriple(source.claims[1], source.claims[2])
    /\ Opposing(source.claims[1], source.claims[2])

\* C1 (as claimed): whenever Process has compiled a source of exactly two
\* claims, a Permission and a Prohibition on the same (subject, action,
\* resource), is_authorized on that triple answers allowed = false.
C1_NeverPermissive ==
    (ProcessReturned /\ Succeeded /\ TwoOpposingClaims(src))
        => ~IsAuthorized(result.artifact, src.claims[1].subject,
                         src.claims[1].action,
                         src.claims[1].resource).allowed

\* C2 (as claimed): no two surviving claims of a compiled artifact share a
\* (subject, action, resource) and have opposing types.
C2_NoOpposingSurvivors ==
    Succeeded =>
        \A i, j \in 1..Len(result.artifact.claims) :
            ~(/\ SameTriple(result.artifact.claims[i], result.artifact.claims[j])
              /\ Opposing(result.artifact.claims[i], result.artifact.claims[j]))

\* C3 (as claimed): Validate returns null on every compiled artifact.
C3_CompiledValidates ==
    Succeeded => Validate(result.artifact) = NoErr

\* every Delegates edge into a Delegation claim of the artifact satisfies
\* Contained(delegatee scope, delegator scope)
EveryDelegatesEdge(artifact, Contained(_, _)) ==
    \A k \in 1..Len(artifact.claims) :
        \A i \in DelegatesInto(artifact.graph, artifact.claims[k].id) :
            artifact.claims[k].type = Delegation =>
                Contained(artifact.claims[k].scope,
                          NodeAt(artifact.graph,
                                 artifact.graph.edges[i].from_id).scope)

\* C4 (as claimed): in an artifact Validate has accepted, every Delegates
\* edge D' -> D into a Delegation claim D has D's scope contained in D''s.
C4_EveryDelegatorContains ==
    pc = "resolve" => EveryDelegatesEdge(art, isScopeContained)

\* a set of jurisdictions or operations read with empty as universal
WithinUniversal(inner, outer) ==
    \/ Range(outer) = {}
    \/ (Range(inner) # {} /\ Range(inner) \subseteq Range(outer))

EffectivelyContained(inner, outer) ==
    /\ WithinUniversal(inner.jurisdictions, outer.jurisdictions)
    /\ WithinUniversal(inner.operations, outer.operations)

\* C5 (as claimed): in an artifact Validate has accepted, no Delegation
\* claim is wider than the delegator the validator checks it against, an
\* empty jurisdictions or operations set being universal.
C5_MonotonicScopeReduction ==
    pc = "resolve" =>
        \A k \in 1..Len(art.claims) :
            (/\ art.claims[k].type = Delegation
             /\ FirstDelegator(art.claims[k], art.graph).id # "")
                => EffectivelyContained(
                       art.claims[k].scope,
                       FirstDelegator(art.claims[k], art.graph).scope)

\* the claim pattern-matches the query of the last answer
Matches(cl) ==
    /\ matches(cl.subject, answer.subject)
    /\ matches(cl.action, answer.action)
    /\ matches(cl.resource, answer.resource)

MatchingOfType(type) == {cl \in Range(rt.claims) : cl.type = type /\ Matches(cl)}

\* C6: is_authorized allows exactly when some Permission claim matches the
\* query and no Prohibition claim does; when a Prohibition matches, the
\* authority_id is the id of a matching Prohibition.
C6_AllowedIffPermittedAndNotProhibited ==
    answer.asked =>
        /\ answer.result.allowed <=>
              (MatchingOfType(Permission) # {} /\ MatchingOfType(Prohibition) = {})
        /\ MatchingOfType(Prohibition) # {} =>
              \E cl \in MatchingOfType(Prohibition) :
                  answer.result.authority_id = cl.id

\* C6's case: a Permission and a Prohibition both match and the answer denies
C6_Witness ==
    /\ answer.asked
    /\ MatchingOfType(Permission) # {}
    /\ MatchingOfType(Prohibition) # {}
    /\ ~answer.result.allowed

\* C7: when no claim matches the query, is_authorized denies with the
\* artifact's id as authority_id and the failing-closed reason.
C7_DefaultDeny ==
    (answer.asked /\ \A cl \in Range(rt.claims) : ~Matches(cl)) =>
        /\ ~answer.result.allowed
        /\ answer.result.authority_id = rt.id
        /\ answer.result.reason = "No applicable authority found - failing closed"

\* C7's case: an artifact with claims, none of which matches the query
C7_Witness ==
    /\ answer.asked
    /\ rt.claims # <<>>
    /\ \A cl \in Range(rt.claims) : ~Matches(cl)
    /\ answer.result.authority_id = rt.id

StageNames == <<"normalization", "validation", "resolution">>

Masked(proof) == [proof EXCEPT !.artifact_id = "", !.generated_at = 0]

SameOutcome(r1, r2) ==
    /\ r1.kind = r2.kind
    /\ r1.kind = "CompilationFailure" => r1.failure_stage = r2.failure_stage
    /\ r1.kind = "CompilationSuccess" =>
          Masked(r1.proof) = Masked(r2.proof)

\* C9: any two calls of Process on equal sources, on the same compiler or
\* on different ones and whatever was compiled in between, agree: both
\* fail at the same stage, or both succeed with proofs equal after masking.
C9_EqualSourcesEqualProofs ==
    \A i, j \in 1..Len(history) :
        history[i].source = history[j].source =>
            SameOutcome(history[i].result, history[j].result)

\* C9's case: the same source compiled twice with success on one compiler,
\* a source of another type registered under its id in between
C9_Witness ==
    /\ Len(history) = 3
    /\ history[1].source = history[3].source
    /\ history[1].compiler = history[3].compiler
    /\ history[2].compiler = history[1].compiler
    /\ history[2].source.type # history[1].source.type
    /\ history[1].result.kind = "CompilationSuccess"
    /\ history[1].result.proof # history[3].result.proof
    /\ history[1].result.artifact.claims # <<>>

\* the references between the claims of a source: (x, y) when a claim with
\* id x names the id y of a claim under delegates_to, revokes or supersedes
References(source) ==
    LET recs == {d \in Range(source.claims) : d.rec}
        ids == {d.id : d \in recs}
    IN  UNION {{<<d.id, y>> : y \in ids \cap {d.conditions.delegates_to,
                                              d.conditions.revokes,
                                              d.conditions.supersedes}} :
               d \in recs}

\* the ids reachable from x along at least one reference, found in at most
\* n rounds
RECURSIVE ReachableFrom(_, _, _, _)
ReachableFrom(refs, x, seen, n) ==
    LET next == {r[2] : r \in {q \in refs : q[1] = x \/ q[1] \in seen}}
    IN  IF n = 0 \/ next \subseteq seen THEN seen \cup next
        ELSE ReachableFrom(refs, x, seen \cup next, n - 1)

HasReferenceCycle(source) ==
    LET refs == References(source)
    IN  \E x \in {r[1] : r \in refs} :
            x \in ReachableFrom(refs, x, {}, Cardinality(refs))

\* the ids of the claims of the artifact Normalize makes of the source
NormalizedIDs(source) == getClaimIDs(Normalize(source, "", 0).claims)

\* the claims of the normalized source that fail validateClaim, by position
FailingClaims(source) ==
    LET artifact == Normalize(source, "", 0)
    IN  {i \in 1..Len(artifact.claims) :
            ~validateClaim(artifact.claims[i], artifact.graph)}

RejectedAtValidation(source) ==
    /\ result.kind = "CompilationFailure"
    /\ result.failure_stage = "validation"
    /\ result.involved_claim_ids = NormalizedIDs(source)

\* C10 as stated: a source that normalizes and whose references form a
\* cycle fails at validation with an invariant about cycles and the sorted
\* ids of all its claims.
C10_CycleReportedAsCycle ==
    (/\ ProcessReturned
     /\ HasReferenceCycle(src)
     /\ NormalizeErr(FALSE, src) = NoErr) =>
        /\ RejectedAtValidation(src)
        /\ result.violated_invariant.kind = "CyclicGraph"

\* C10 amended: a source that normalizes and whose references form a cycle
\* fails at validation with the sorted ids of all its claims; the invariant
\* is about cycles unless one of the claims fails its own validation, and
\* then it names the first such claim and says nothing of cycles.
C10_CycleRejectedAtValidation ==
    (/\ ProcessReturned
     /\ HasReferenceCycle(src)
     /\ NormalizeErr(FALSE, src) = NoErr) =>
        /\ RejectedAtValidation(src)
        /\ IF FailingClaims(src) = {}
           THEN result.violated_invariant = Err("CyclicGraph", "")
           ELSE \E i \in FailingClaims(src) :
                   /\ \A j \in FailingClaims(src) : i <= j
                   /\ result.violated_invariant =
                         Err("ClaimFailedValidation", ClaimRecords(src)[i].id)

\* C10's case: a cycle of two claims through a delegates_to and a revokes
\* reference, reported as a cycle
C10_Witness ==
    /\ ProcessReturned
    /\ HasReferenceCycle(src)
    /\ <<"a", "b">> \in References(src)
    /\ <<"b", "a">> \in References(src)
    /\ \E d \in Range(src.claims) : d.conditions.revokes = "b"
    /\ \E d \in Range(src.claims) : d.conditions.delegates_to = "a"
    /\ result.kind = "CompilationFailure"
    /\ result.violated_invariant.kind = "CyclicGraph"
    /\ result.involved_claim_ids = <<"a", "b">>

\* the Delegation claims of the normalized source that validateDelegationClaim
\* rejects: the scope is not contained in the scope of the delegator found
ScopeViolators(source) ==
    LET artifact == Normalize(source, "", 0)
    IN  {i \in 1..Len(artifact.claims) :
            /\ artifact.claims[i].type = Delegation
            /\ ~validateDelegationClaim(artifact.claims[i], artifact.graph)}

\* C11 (as claimed): a source with a Delegation claim whose scope is not
\* contained in its delegator's fails at validation, and the violated
\* invariant is of the DelegationScopeViolation kind.
C11_ScopeViolationCited ==
    (/\ ProcessReturned
     /\ NormalizeErr(FALSE, src) = NoErr
     /\ ScopeViolators(src) # {}) =>
        /\ result.kind = "CompilationFailure"
        /\ result.failure_stage = "validation"
        /\ result.violated_invariant.kind = "DelegationScopeViolation"

\* the ids of claims of the source that another claim of the source names
\* under revokes or supersedes
DroppedIDs(source) ==
    LET recs == {d \in Range(source.claims) : d.rec}
    IN  {d.id : d \in recs} \cap
        UNION {{d.conditions.revokes, d.conditions.supersedes} : d \in recs}

\* C12: in a compiled artifact, no claim and no graph node carries an id
\* that a claim of the source revokes or supersedes, whether or not the
\* revoking or superseding claim survives itself.
C12_RevokedAndSupersededAreGone ==
    (ProcessReturned /\ Succeeded) =>
        \A y \in DroppedIDs(src) :
            /\ \A i \in 1..Len(result.artifact.claims) :
                   result.artifact.claims[i].id # y
            /\ y \notin DOMAIN result.artifact.graph.nodes

\* C12's case: c revokes b and b supersedes a; b is dropped and a is
\* dropped all the same
C12_Witness ==
    /\ ProcessReturned
    /\ Succeeded
    /\ src.claims \in RevocationChains
    /\ src.claims[3].conditions.revokes = "b"
    /\ src.claims[2].conditions.supersedes = "a"
    /\ getClaimIDs(result.artifact.claims) = <<"c">>

\* no two entries of the claims of an artifact have the same id, and the
\* graph has as many nodes as the artifact has claims
UniqueClaimIDs(artifact) ==
    /\ \A i, j \in 1..Len(artifact.claims) :
           artifact.claims[i].id = artifact.claims[j].id => i = j
    /\ Cardinality(DOMAIN artifact.graph.nodes) = Len(artifact.claims)

\* C13 (as claimed): the artifact Normalize returns and the artifact Process
\* returns have no two claims of the same id, whatever the source.
C13_ClaimIDsUnique ==
    /\ pc = "validate" => UniqueClaimIDs(art)
    /\ Succeeded => UniqueClaimIDs(result.artifact)

\* Validate has been called on art, with the error log[1].err
Validated == log # <<>> /\ log[1].stage = "validation" /\ history = <<>>

\* some edge of the graph has an endpoint that is no key of the nodes table
HasDanglingEdge(graph) ==
    \E i \in 1..Len(graph.edges) :
        \/ graph.edges[i].from_id \notin DOMAIN graph.nodes
        \/ graph.edges[i].to_id \notin DOMAIN graph.nodes

\* C14 (as claimed): Validate returns an error for every artifact with an
\* edge whose from_id or to_id is no key of graph.nodes, the artifact with
\* zero claims and an initialized empty nodes table included.
C14_DanglingEdgeRejected ==
    (Validated /\ HasDanglingEdge(art.graph)) => log[1].err # NoErr

\* every claim of the artifact is a node of its graph under its id
ClaimsAreNodes(artifact) ==
    \A i \in 1..Len(artifact.claims) :
        /\ artifact.claims[i].id \in DOMAIN artifact.graph.nodes
        /\ artifact.graph.nodes[artifact.claims[i].id].id = artifact.claims[i].id

\* C15 (as claimed): Validate accepts an artifact only if every claim of
\* artifact.claims is a node of artifact.graph.nodes under the same id.
C15_AcceptedClaimsAreNodes ==
    (Validated /\ log[1].err = NoErr) => ClaimsAreNodes(art)

\* C16: Validate returns the NilGraph error for every artifact whose nodes
\* table is absent, whatever its claims and edges, and returns no error for
\* the artifact with no claims, an initialized empty nodes table and no edges.
C16_AbsentIsNotEmpty ==
    Validated =>
        /\ art.graph.nodes_nil => log[1].err = Err("NilGraph", "")
        /\ (/\ ~art.graph.nodes_nil
            /\ art.claims = <<>>
            /\ DOMAIN art.graph.nodes = {}
            /\ art.graph.edges = <<>>) => log[1].err = NoErr

\* C16's case: an artifact without claims whose nodes table is absent
C16_Witness ==
    /\ Validated
    /\ art.graph.nodes_nil
    /\ art.claims = <<>>
    /\ art.graph.edges = <<>>
    /\ log[1].err.kind = "NilGraph"

\* two artifacts have the same claims, in the same order, and the same graph
SameClaimsAndGraph(x, y) == x.claims = y.claims /\ x.graph = y.graph

\* ResolveConflicts was called twice without an error, the second time on
\* what the first call returned
ResolvedTwice ==
    /\ Len(history) = 2
    /\ \A i \in 1..Len(log) : log[i].err = NoErr

\* C17 (as claimed): on every validated artifact, a second ResolveConflicts
\* returns the claims and the graph the first one returned.
C17_ResolveTwiceIsResolveOnce ==
    ResolvedTwice => SameClaimsAndGraph(history[1], history[2])

\* the id a claim names under the condition an edge type comes from
NamedBy(claim, edgeType) ==
    CASE edgeType = Delegates -> claim.conditions.delegates_to
      [] edgeType = Revokes -> claim.conditions.revokes
      [] edgeType = Supersedes -> claim.conditions.supersedes

\* (from_id, to_id, edge_type) of e is at most that of f
EdgeAtMost(e, f) ==
    \/ IdRank(e.from_id) < IdRank(f.from_id)
    \/ /\ e.from_id = f.from_id
       /\ \/ IdRank(e.to_id) < IdRank(f.to_id)
          \/ /\ e.to_id = f.to_id
             /\ EdgeTypeRank(e.edge_type) <= EdgeTypeRank(f.edge_type)

\* the graph of the artifact is the graph of its claims: the node keys are
\* the ids of the claims and every node is a claim of its key; every edge
\* joins two nodes and stands for a condition of a claim of its origin, each
\* condition that names a node has its edge, and the edges ascend
GraphIsOfClaims(artifact) ==
    LET claims == artifact.claims
        graph == artifact.graph
        edges == graph.edges
        ids == {claims[i].id : i \in 1..Len(claims)}
        sayers(e) == {i \in 1..Len(claims) :
                        /\ claims[i].id = e.from_id
                        /\ NamedBy(claims[i], e.edge_type) = e.to_id}
        copies(e) == {k \in 1..Len(edges) : edges[k] = e}
    IN  /\ ~graph.nodes_nil
        /\ DOMAIN graph.nodes = ids
        /\ \A id \in ids : /\ graph.nodes[id].id = id
                           /\ graph.nodes[id] \in Range(claims)
        /\ \A k \in 1..Len(edges) :
            /\ edges[k].from_id \in ids
            /\ edges[k].to_id \in ids
            /\ edges[k].edge_type \in {Delegates, Revokes, Supersedes}
            /\ Cardinality(copies(edges[k])) = Cardinality(sayers(edges[k]))
        /\ \A i \in 1..Len(claims) :
            \A ty \in {Delegates, Revokes, Supersedes} :
                NamedBy(claims[i], ty) \in ids =>
                    \E k \in 1..Len(edges) :
                        edges[k] = [from_id |-> claims[i].id,
                                    to_id |-> NamedBy(claims[i], ty),
                                    edge_type |-> ty]
        /\ \A k \in 1..(Len(edges) - 1) : EdgeAtMost(edges[k], edges[k + 1])

\* C18: the artifact Normalize returned (the driver is about to validate it)
\* and the artifact ResolveConflicts returned (the driver is about to emit
\* its proof) have the graph of their claims.
C18_GraphIsOfClaims ==
    pc \in {"validate", "emit"} => GraphIsOfClaims(art)

\* C18's case: ResolveConflicts dropped a claim and returned an artifact of
\* which two claims are still joined by an edge
C18_Witness ==
    /\ pc = "emit"
    /\ Len(art.claims) < Len(ClaimRecords(src))
    /\ Len(art.graph.edges) >= 1
    /\ GraphIsOfClaims(art)

\* C19: a Normalize that is called with the cancellation already signalled
\* returns the cancellation error and no artifact and leaves the sources
\* table as it was; so does a Normalize of a source with an empty id, with
\* EmptySourceID.
C19_RefusedSourceNotRegistered ==
    [][(pc = "normalize" /\ pc' # "normalize"
            /\ (cancelled \/ src.id = "")) =>
        /\ sources' = sources
        /\ art' = ZeroArtifact
        /\ log' = <<[stage |-> "normalization",
                     err |-> Err(IF cancelled THEN "Cancelled"
                                 ELSE "EmptySourceID", "")]>>
        /\ pc' = "done"]_vars

\* C19's case: on a compiler that has registered a source and has refused
\* one with an empty id, a call with another id was cancelled before
\* Normalize, and the table does not have that id
C19_Witness ==
    /\ pc = "done"
    /\ cancelled
    /\ log = <<[stage |-> "normalization", err |-> Err("Cancelled", "")]>>
    /\ art = ZeroArtifact
    /\ DOMAIN sources[compiler] # {}
    /\ src.id \notin DOMAIN sources[compiler]
    /\ \E i \in 1..Len(history) :
        /\ history[i].result.kind = "CompilationFailure"
        /\ history[i].result.violated_invariant = Err("EmptySourceID", "")

Entries(list) == {list[i] : i \in 1..Len(list)}

HasDirectedCycle(graph) ==
    LET ids == DOMAIN graph.nodes
        joined == {<<e.from_id, e.to_id>> : e \in Entries(graph.edges)}
    IN  \E walk \in SeqsUpTo(ids, Cardinality(ids)) :
            /\ Len(walk) >= 1
            /\ \A i \in 1..(Len(walk) - 1) : <<walk[i], walk[i + 1]>> \in joined
            /\ <<walk[Len(walk)], walk[1]>> \in joined

\* C27: on a graph whose edges all join nodes, hasCycles returns (it
\* terminates) and reports a cycle exactly when the edges of all types
\* together have a directed cycle, a self-loop included.
C27_CycleReportedIffCycle ==
    (answer.asked /\ answer.fn = "hasCycles") =>
        /\ answer.result \in BOOLEAN
        /\ answer.result <=> HasDirectedCycle(answer.graph)

\* C27's case: a cycle through three nodes over edges of two types is
\* reported
C27_Witness ==
    /\ answer.asked
    /\ answer.fn = "hasCycles"
    /\ answer.result
    /\ answer.graph.edges =
        <<[from_id |-> "c", to_id |-> "a", edge_type |-> Revokes],
          [from_id |-> "a", to_id |-> "b", edge_type |-> Supersedes],
          [from_id |-> "b", to_id |-> "c", edge_type |-> Revokes]>>

\* the field begins with the pattern less its last character
BeginsWithButLast(value, pattern) ==
    /\ Len(pattern) - 1 <= Len(value)
    /\ \A i \in 1..(Len(pattern) - 1) : value[i] = pattern[i]

\* the pattern ends in the wildcard, after a separator or not
EndsInStar(pattern) == Len(pattern) >= 1 /\ pattern[Len(pattern)] = "*"
EndsInSlashStar(pattern) ==
    /\ Len(pattern) >= 2
    /\ pattern[Len(pattern)] = "*"
    /\ pattern[Len(pattern) - 1] = "/"

\* C28: matches(pattern, value) holds exactly when the pattern is "*", or
\* the two are equal, or the pattern ends in "/*" and the value begins with
\* the pattern less its "*", or the pattern ends in "*" and not in "/*" and
\* the value begins with the pattern less its "*".
C28_MatchesExactlyFourCases ==
    (answer.asked /\ answer.fn = "matches") =>
        LET pattern == answer.pattern
            value == answer.value
        IN  answer.result <=>
                \/ pattern = <<"*">>
                \/ pattern = value
                \/ EndsInSlashStar(pattern) /\ BeginsWithButLast(value, pattern)
                \/ /\ EndsInStar(pattern)
                   /\ ~EndsInSlashStar(pattern)
                   /\ BeginsWithButLast(value, pattern)

\* C28's case: the query that is the bare prefix of a "/*" pattern is not
\* matched
C28_Witness ==
    /\ answer.asked
    /\ answer.fn = "matches"
    /\ answer.pattern = <<"c", "/", "*">>
    /\ answer.value = <<"c">>
    /\ ~answer.result

ResolvedRegistered ==
    /\ history # <<>>
    /\ {"s", "t"} \subseteq DOMAIN sources[compiler]

\* the ids of the claims ResolveConflicts kept of the conflict group
KeptOfGroup == {history[1].claims[i].id : i \in 1..Len(history[1].claims)}
                   \cap {"a", "b"}

\* (major, minor, patch) of v is before that of w
TripleBefore(v, w) ==
    \/ v[1] < w[1]
    \/ v[1] = w[1] /\ v[2] < w[2]
    \/ v[1] = w[1] /\ v[2] = w[2] /\ v[3] < w[3]

\* C23: of a conflict group whose sources have one authority type and
\* different version triples, ResolveConflicts keeps the member whose source
\* has the smaller triple, whatever the depths and the specificities.
C23_LowerVersionWins ==
    LET s == sources[compiler]["s"]
        t == sources[compiler]["t"]
    IN  (ResolvedRegistered /\ s.type = t.type) =>
            /\ TripleBefore(parseVersion(s.version), parseVersion(t.version))
                    => KeptOfGroup = {"a"}
            /\ TripleBefore(parseVersion(t.version), parseVersion(s.version))
                    => KeptOfGroup = {"b"}

\* the claim of the merged artifact with an id
MergedClaim(id) ==
    art.claims[CHOOSE i \in 1..Len(art.claims) : art.claims[i].id = id]

\* the precedence key of a claim of the merged artifact: the authority order
\* and the version triple of its registered source, its delegation depth,
\* and its scope specificity negated
FullKey(claim) ==
    LET source == sources[compiler][claim.source_id]
        version == parseVersion(source.version)
        specificity ==
            Len(claim.scope.jurisdictions) + Len(claim.scope.operations)
            - (IF claim.scope.time_start # NoTime THEN 10 ELSE 0)
            - (IF claim.scope.time_end # NoTime THEN 10 ELSE 0)
    IN  <<AuthorityTypeOrder(source.type), version[1], version[2], version[3],
          getDelegationDepth(claim, art.graph), 0 - specificity>>

\* key x is before key y in the lexicographic order
KeyBefore(x, y) ==
    \E i \in 1..Len(x) : x[i] < y[i] /\ \A j \in 1..(i - 1) : x[j] = y[j]

\* C24: of every conflict group ResolveConflicts keeps one member, whose
\* precedence key no other member's key is before, and drops the others.
C24_WinnerHasLeastKey ==
    ResolvedRegistered =>
        \E w \in {"a", "b"} :
            /\ KeptOfGroup = {w}
            /\ \A m \in {"a", "b"} :
                ~KeyBefore(FullKey(MergedClaim(m)), FullKey(MergedClaim(w)))

\* the artifact ResolveConflicts was given by the driver: what Normalize
\* made of the source
GivenClaims == Normalize(src, "", 0).claims
GivenGraph == Normalize(src, "", 0).graph

\* the claim is the target of a Revokes or a Supersedes edge of the graph
IsEdgeTarget(claim) ==
    \E e \in Entries(GivenGraph.edges) :
        /\ e.to_id = claim.id
        /\ e.edge_type \in {Revokes, Supersedes}

\* the i-th given claim is a Permission or Prohibition and another given
\* Permission or Prohibition is on exactly its (subject, action, resource)
InConflictGroup(i) ==
    /\ GivenClaims[i].type \in {Permission, Prohibition}
    /\ \E j \in 1..Len(GivenClaims) :
        /\ j # i
        /\ GivenClaims[j].type \in {Permission, Prohibition}
        /\ SameTriple(GivenClaims[i], GivenClaims[j])

\* s is t with some entries left out, the others in their order
RECURSIVE IsSubsequence(_, _)
IsSubsequence(s, t) ==
    IF s = <<>> THEN TRUE
    ELSE IF t = <<>> THEN FALSE
    ELSE IF Head(s) = Head(t) THEN IsSubsequence(Tail(s), Tail(t))
    ELSE IsSubsequence(s, Tail(t))

\* C25: ResolveConflicts keeps, unchanged and in their order, every claim
\* that is neither the target of a Revokes or Supersedes edge nor a member
\* of a group of two or more Permission / Prohibition claims on exactly one
\* (subject, action, resource).
C25_OnlyTargetsAndLosersDropped ==
    (pc = "emit" /\ ~cancelled) =>
        /\ IsSubsequence(art.claims, GivenClaims)
        /\ \A i \in 1..Len(GivenClaims) :
            (~IsEdgeTarget(GivenClaims[i]) /\ ~InConflictGroup(i)) =>
                GivenClaims[i] \in Entries(art.claims)

\* the field of the compiler that the goroutine's next statement reads or
\* writes, "" when it touches none
AccessedField(g) ==
    CASE goroutines[g].pc \in {"log_start", "log_n", "log_v", "log_r", "log_e",
                               "s_store", "s_stored"} -> "logger"
      [] goroutines[g].pc \in {"n_store", "r_copy"} -> "sources"
      [] OTHER -> ""

\* the goroutine's next statement writes the field
Writes(g) == goroutines[g].pc \in {"s_store", "s_stored", "n_store"}

\* the goroutine holds c.mu as its next statement needs it: the write lock
\* for a write, the write lock or a read lock for a read
HoldsLock(g) ==
    IF Writes(g) THEN mu.writer = g
    ELSE mu.writer = g \/ g \in mu.readers

PastRegistration(g) ==
    /\ goroutines[g].op \in {"Process", "Normalize"}
    /\ ~goroutines[g].ctxErr
    /\ goroutines[g].source.id # ""
    /\ goroutines[g].pc \notin {"log_start", "n_enter", "n_lock", "n_store"}
    /\ goroutines[g].result # Panic

\* C22: the sources table holds, for every id, the source of the last
\* Normalize call that stored under that id, and no other id; the calls
\* that store are the calls that passed the cancellation and empty-id
\* checks, whether or not their claims parse afterwards.
C22_LastWriterWins ==
    LET table == sources[compiler]
        stores(id) == {i \in 1..Len(history) : history[i].source.id = id}
        last(id) == CHOOSE i \in stores(id) : \A j \in stores(id) : j <= i
    IN  /\ DOMAIN table = {history[i].source.id : i \in 1..Len(history)}
        /\ \A id \in DOMAIN table : table[id] = history[last(id)].source
        /\ \A i \in 1..Len(history) :
            ~history[i].ctxErr /\ history[i].source.id # ""
        /\ \A g \in Goroutines :
            PastRegistration(g) =>
                \E i \in 1..Len(history) :
                    /\ history[i].by = g
                    /\ history[i].source = goroutines[g].source

\* C22's case: two goroutines stored sources of one id; the second one's
\* claims did not parse, its Normalize returned the error, and the table
\* holds the second source
C22_Witness ==
    /\ Len(history) = 2
    /\ history[1].by # history[2].by
    /\ history[1].source.id = history[2].source.id
    /\ history[1].source # history[2].source
    /\ goroutines[history[2].by].pc = "done"
    /\ goroutines[history[2].by].op = "Normalize"
    /\ goroutines[history[2].by].err.kind = "CompilationError"
    /\ goroutines[history[1].by].pc = "log_n"
    /\ sources[compiler][history[2].source.id] = history[2].source

\* what Process returns for the source on a compiler that never saw another
\* call: the table holds the source alone when the conflicts are resolved
ProcessAlone(source, ctxErr) ==
    LET nerr == NormalizeErr(ctxErr, source)
        normalized == Normalize(source, UUIDs[1], 1)
        verr == Validate(normalized)
        r == ResolveConflicts(ctxErr, normalized, Register(<<>>, source))
    IN  IF nerr # NoErr THEN NormalizationFailure(nerr)
        ELSE IF verr # NoErr THEN ValidationFailure(verr, normalized)
        ELSE IF r.err # NoErr THEN ResolutionFailure(r.err, normalized)
        ELSE CompilationSuccess(r.artifact, EmitProof(r.artifact))

\* a result of Process without the artifact id and the time of generation
ModuloIDAndTime(r) ==
    IF r.kind # "CompilationSuccess" THEN r
    ELSE [r EXCEPT !.artifact.id = "", !.artifact.generated_at = 0,
                   !.proof.artifact_id = "", !.proof.generated_at = 0]

\* C30: whatever the table holds and whatever the other goroutine runs in
\* between, a Process call returns what it returns alone on a fresh
\* compiler, up to the artifact id and the time of generation.
C30_ProcessAsIfAlone ==
    \A g \in Goroutines :
        (goroutines[g].pc = "done" /\ goroutines[g].op = "Process") =>
            ModuloIDAndTime(goroutines[g].result) =
                ModuloIDAndTime(ProcessAlone(goroutines[g].source,
                                             goroutines[g].ctxErr))

\* C30's case: a Process call resolved a conflict on a table in which the
\* other goroutine had replaced its source by one of another type and
\* version, and returned an artifact with the losing claim dropped
C30_Witness ==
    \E g \in Goroutines :
        LET frame == goroutines[g] IN
        /\ frame.pc = "done"
        /\ frame.op = "Process"
        /\ frame.result.kind = "CompilationSuccess"
        /\ Len(frame.result.artifact.claims) < Len(frame.source.claims)
        /\ frame.source.id \in DOMAIN frame.sourcesCopy
        /\ frame.sourcesCopy[frame.source.id].type # frame.source.type
        /\ frame.sourcesCopy[frame.source.id].version # frame.source.version
        /\ \E i \in 1..Len(history) : history[i].by # g

====
